---- MODULE Spec2Model ----
(***************************************************************************)
(* State-machine model of the getodd batch scraper: the run loop of        *)
(* main(), the per-group processing of process_csv_file (sequential path   *)
(* for one worker, thread pool otherwise), the pooled worker loop of       *)
(* process_url_batch with its retry / browser-restart logic, the session   *)
(* helpers of scraper.py and the checkpoint helpers of utils.py.           *)
(***************************************************************************)
EXTENDS Integers, Sequences, FiniteSets, TLC

\* ------------------------------------------------------------------ bounds
MaxGroups == 2      \* most CSV files found by find_csv_files
MaxTargets == 3     \* most URLs in one CSV file
MaxWorkers == 2     \* largest value of --workers explored
MaxEntries == 1     \* odds entries of a scrape that finds any
MaxBatchUrls == 10  \* longest URL list given to the batcher on its own
MaxBatchWorkers == 7 \* largest worker count given to the batcher on its own
MaxOddsElements == 3 \* most odds elements found in one bookmaker row
MaxSlugTokens == 3  \* most hyphen-separated tokens in the league segment of a URL
MaxErrorLen == 501   \* longest error description of an exception, in characters
MaxFragments == 2    \* most recognizable fragments in one error description
MaxPasses == 3       \* runs of the program over one input directory

\* ------------------------------------------------------- program constants
max_retries == 3    \* attempts per URL
max_attempts == 3   \* launches inside create_driver
restart_pause == 2  \* seconds slept before the replacement create_driver
recovery_pause == 5 \* seconds slept before the second replacement create_driver
error_limit == 500  \* characters of error_msg kept in a failure record

None == "None"
Groups == 1..MaxGroups
Workers == 0..(MaxWorkers - 1)
Platforms == {"Darwin", "Linux", "Windows"}

Min(a, b) == IF a < b THEN a ELSE b

\* ------------------------------------------------------------------ inputs
\* the input directories explored, as the number of URLs of each CSV file:
\* one file of MaxTargets URLs (run from scratch), or MaxGroups files of one
\* URL each (run with and without --resume and a previous checkpoint), or a
\* file without URLs followed by a file of one URL (run from scratch)
InputShapes == {<<MaxTargets>>, [g \in Groups |-> 1], <<0, 1>>}
AllUrls == {<<g, i>> : g \in Groups, i \in 1..MaxTargets}

\* ---------------------------------------------------------- error messages
TimeoutMsg == "Message: timeout"
UnreachableMsg == "Message: chrome not reachable"
DriverLostMsg == "Driver connection lost - needs restart"
NotCreatedMsg == "Message: session not created"
QuitFailedMsg == "Message: invalid session id"
RestartFailedMsg == "Browser restart failed: Message: session not created"
NoError == ""
ProtoErrors == {TimeoutMsg, UnreachableMsg}

\* the messages of the model that contain one of the substrings tested by
\* the pooled worker's critical_error
critical_error(error_msg) ==
    error_msg \in {UnreachableMsg, DriverLostMsg, NotCreatedMsg, RestartFailedMsg}

\* ------------------------------------------------------------ checkpoints
EmptyCheckpoint == [processed_files |-> <<>>, failed_urls |-> <<>>]
PriorFailure == [url |-> <<1, 1>>, error |-> TimeoutMsg, worker_id |-> 0,
                 attempts |-> max_retries]
\* checkpoints a previous run can have left on disk
PriorCheckpoints ==
    {[processed_files |-> <<1>>, failed_urls |-> <<PriorFailure>>]}

AbsentFile == [state |-> "absent", data |-> EmptyCheckpoint]
TruncatedFile == [state |-> "truncated", data |-> EmptyCheckpoint]
CompleteFile(d) == [state |-> "complete", data |-> d]

\* json.load on an open file: the parsed value, or an error on a file that
\* does not hold one complete JSON document
json_load(file) ==
    IF file.state = "complete" THEN [ok |-> TRUE, data |-> file.data]
    ELSE [ok |-> FALSE, data |-> EmptyCheckpoint]

\* a load that opens the file without looking whether it exists
load_checkpoint_unchecked(file) == json_load(file)

\* utils.load_checkpoint
load_checkpoint(file) ==
    IF file.state # "absent" THEN json_load(file)
    ELSE [ok |-> TRUE, data |-> EmptyCheckpoint]

\* monitor_dashboard.parse_checkpoint: the empty dict for a missing or
\* unparsable file, the parsed document otherwise
parse_checkpoint(file) ==
    IF file.state = "absent" THEN [empty |-> TRUE, data |-> EmptyCheckpoint]
    ELSE IF json_load(file).ok THEN [empty |-> FALSE, data |-> json_load(file).data]
    ELSE [empty |-> TRUE, data |-> EmptyCheckpoint]

IsPrefix(s, t) == Len(s) <= Len(t) /\ SubSeq(t, 1, Len(s)) = s
Range(s) == {s[i] : i \in 1..Len(s)}

RECURSIVE NumEntries(_)
\* len() of a result list kept as the blocks that results.extend appended
NumEntries(blocks) ==
    IF blocks = <<>> THEN 0 ELSE Head(blocks).n + NumEntries(Tail(blocks))

VARIABLES
    call,            \* a function called on its own: arguments and result
    input,           \* the input directory: URLs per CSV file
    args,            \* parsed command line: resume flag, worker count
    platform,        \* platform.system()
    ckptFile,        \* checkpoint.json on disk
    output,          \* per group: the <stem>_odds.csv artifact on disk
    failedFile,      \* failed_urls.json on disk
    mpc,             \* position of main()
    csv_files,       \* main: the groups still to process
    idx,             \* main: index into csv_files
    checkpoint_data, \* main: the checkpoint dict in memory
    all_failed_urls, \* main: the run's failure list
    processed_set,   \* main: groups of the loaded checkpoint
    last_ckpt,       \* the last complete checkpoint document on disk
    group_error,     \* groups whose process_csv_file hit its outer except
    all_results,     \* process_csv_file: merged success list
    failed_urls,     \* process_csv_file: merged failure list
    seq_idx,         \* process_csv_file, one worker: index of the URL
    seq_retry_count, \* process_csv_file, one worker: retry_count
    url_batches,     \* process_csv_file: the sub-list of each worker
    wpc,             \* per worker: position in process_url_batch
    widx,            \* per worker: index of the URL in its batch
    retry_count,     \* per worker: retry_count of the current URL
    error_msg,       \* per worker: error_msg of the last failed attempt
    driver,          \* per worker: None, or the state of its session
    results,         \* per worker: results
    wfailed,         \* per worker: failed_urls
    restart_log,     \* per worker: destroys / creates since the last failure
    sessions_open,   \* per worker: sessions it created and has not ended
    attempts_log     \* per worker: attempts made in the running retry loop

mainVars == <<mpc, csv_files, idx, checkpoint_data, all_failed_urls,
              processed_set, last_ckpt, group_error>>
diskVars == <<ckptFile, output, failedFile>>
groupVars == <<all_results, failed_urls, seq_idx, seq_retry_count, url_batches>>
workerVars == <<wpc, widx, retry_count, error_msg, driver, results, wfailed,
                restart_log, sessions_open>>
\* the match_url column of CSV file g: distinct URLs <<g, i>>
UrlsOf(g) == [i \in 1..input[g] |-> <<g, i>>]

\* find_csv_files: the sorted list of CSV files under the input directory
find_csv_files == [g \in 1..Len(input) |-> g]

vars == <<call, input, args, platform, diskVars, mainVars, groupVars, workerVars, attempts_log>>

NoRestart == [destroyed |-> 0, created |-> 0]

IdleWorkers ==
    /\ wpc = [w \in Workers |-> "idle"]
    /\ widx = [w \in Workers |-> 0]
    /\ retry_count = [w \in Workers |-> 0]
    /\ error_msg = [w \in Workers |-> NoError]
    /\ driver = [w \in Workers |-> None]
    /\ results = [w \in Workers |-> <<>>]
    /\ wfailed = [w \in Workers |-> <<>>]
    /\ restart_log = [w \in Workers |-> NoRestart]
    /\ sessions_open = [w \in Workers |-> 0]
    /\ url_batches = [w \in Workers |-> <<>>]

\* no function is being called on its own
NoCall == [op |-> "none"]

\* main() before its first statement
ProgramStart ==
    /\ output = [g \in Groups |-> [exists |-> FALSE, rows |-> <<>>]]
    /\ failedFile = [exists |-> FALSE, rows |-> <<>>]
    /\ mpc = "start"
    /\ csv_files = find_csv_files
    /\ idx = 1
    /\ checkpoint_data = EmptyCheckpoint
    /\ all_failed_urls = <<>>
    /\ processed_set = {}
    /\ last_ckpt = ckptFile.data
    /\ group_error = {}
    /\ all_results = <<>>
    /\ failed_urls = <<>>
    /\ seq_idx = 0
    /\ seq_retry_count = 0
    /\ IdleWorkers
    /\ attempts_log = [w \in Workers |-> 0]

Init ==
    /\ call = NoCall
    /\ input \in InputShapes
    /\ args \in [resume : BOOLEAN, workers : 1..MaxWorkers]
    /\ platform \in Platforms
    /\ ckptFile \in {AbsentFile} \cup {CompleteFile(d) : d \in PriorCheckpoints}
    /\ (Len(input) = 1 \/ input[1] = 0) =>
          (~args.resume /\ ckptFile = AbsentFile)
    /\ ProgramStart

\* the program is not run: one function is called on its own
NotRunning ==
    /\ input = <<1>>
    /\ args = [resume |-> FALSE, workers |-> 1]
    /\ platform = "Linux"
    /\ ckptFile = AbsentFile
    /\ ProgramStart

programVars == <<input, args, platform, diskVars, mainVars, groupVars,
                 workerVars, attempts_log>>


\* ------------------------------------------------------------------ main()
\* a start that ignores the resume flag and never loads the checkpoint
InitialCheckpoint_fresh(resume, file) == EmptyCheckpoint

\* a start that loads the checkpoint whatever the resume flag says
InitialCheckpoint_loaded(resume, file) == load_checkpoint(file).data

\* main, line 95: the checkpoint the run starts from
InitialCheckpoint(resume, file) ==
    IF resume THEN load_checkpoint(file).data ELSE EmptyCheckpoint

\* a resume that keeps every group
FilterFiles_none(files, processed) == files

\* main, line 100: the groups left after dropping the processed ones
FilterFiles(files, processed) ==
    SelectSeq(files, LAMBDA f : f \notin processed)

\* main, lines 93-104: load the checkpoint, filter the groups
MainStart ==
    /\ mpc = "start"
    /\ IF args.resume /\ ~load_checkpoint(ckptFile).ok
       THEN \* json.load raises out of main
            /\ mpc' = "crashed"
            /\ UNCHANGED <<csv_files, checkpoint_data, all_failed_urls,
                           processed_set>>
       ELSE LET data == InitialCheckpoint(args.resume, ckptFile) IN
            /\ checkpoint_data' = data
            /\ processed_set' =
                  IF args.resume /\ data.processed_files # <<>>
                  THEN Range(data.processed_files) ELSE {}
            /\ csv_files' =
                  IF args.resume /\ data.processed_files # <<>>
                  THEN FilterFiles(csv_files, Range(data.processed_files))
                  ELSE csv_files
            /\ all_failed_urls' = data.failed_urls
            /\ mpc' = "loop"
    /\ UNCHANGED <<call, input, args, platform, diskVars, idx, last_ckpt, group_error, groupVars,
                   workerVars, attempts_log>>

\* ------------------------------------------------------- process_csv_file
\* a slice that keeps one URL too many: neighbouring sub-lists overlap
Batches_overlap(urls, num_workers) ==
    LET total_urls == Len(urls)
        batch_size == (total_urls + num_workers - 1) \div num_workers
        count == (total_urls + batch_size - 1) \div batch_size
    IN [j \in 1..count |->
          SubSeq(urls, (j - 1) * batch_size + 1,
                 Min(j * batch_size + 1, total_urls))]

\* a range that stops before the last, shorter sub-list
Batches_dropTail(urls, num_workers) ==
    LET total_urls == Len(urls)
        batch_size == (total_urls + num_workers - 1) \div num_workers
        count == total_urls \div batch_size
    IN [j \in 1..count |->
          SubSeq(urls, (j - 1) * batch_size + 1, j * batch_size)]

\* a batch size rounded down: more sub-lists than workers
Batches_floor(urls, num_workers) ==
    LET total_urls == Len(urls)
        batch_size == IF total_urls < num_workers THEN 1
                      ELSE total_urls \div num_workers
        count == (total_urls + batch_size - 1) \div batch_size
    IN [j \in 1..count |->
          SubSeq(urls, (j - 1) * batch_size + 1, Min(j * batch_size, total_urls))]

\* process_csv_file, lines 226-227: contiguous sub-lists of batch_size URLs
Batches(urls, num_workers) ==
    LET total_urls == Len(urls)
        batch_size == (total_urls + num_workers - 1) \div num_workers
        count == (total_urls + batch_size - 1) \div batch_size
    IN [j \in 1..count |->
          SubSeq(urls, (j - 1) * batch_size + 1, Min(j * batch_size, total_urls))]

CurGroup == csv_files[idx]

\* process_csv_file, lines 164-171 and 225-236: the file is read; one worker
\* enters the sequential loop, several workers get their batches submitted
ReadCsv ==
    /\ mpc = "loop"
    /\ idx <= Len(csv_files)
    /\ all_results' = <<>>
    /\ failed_urls' = <<>>
    /\ LET urls == UrlsOf(CurGroup) IN
       IF args.workers = 1
       THEN /\ mpc' = IF Len(urls) = 0 THEN "save" ELSE "seq"
            /\ seq_idx' = 1
            /\ seq_retry_count' = 0
            /\ url_batches' = [w \in Workers |-> <<>>]
            /\ wpc' = [w \in Workers |-> "idle"]
            /\ UNCHANGED group_error
       ELSE IF Len(urls) = 0
       THEN \* range() with step 0 raises; the outer except returns ([], [])
            /\ mpc' = "save"
            /\ group_error' = group_error \cup {CurGroup}
            /\ url_batches' = [w \in Workers |-> <<>>]
            /\ wpc' = [w \in Workers |-> "idle"]
            /\ UNCHANGED <<seq_idx, seq_retry_count>>
       ELSE LET b == Batches(urls, args.workers) IN
            /\ url_batches' = [w \in Workers |->
                                 IF w + 1 \in DOMAIN b THEN b[w + 1] ELSE <<>>]
            /\ wpc' = [w \in Workers |->
                         IF w + 1 \in DOMAIN b /\ b[w + 1] # <<>>
                         THEN "start" ELSE "idle"]
            /\ mpc' = "pool"
            /\ UNCHANGED <<seq_idx, seq_retry_count, group_error>>
    /\ widx' = [w \in Workers |-> 0]
    /\ retry_count' = [w \in Workers |-> 0]
    /\ error_msg' = [w \in Workers |-> NoError]
    /\ driver' = [w \in Workers |-> None]
    /\ results' = [w \in Workers |-> <<>>]
    /\ wfailed' = [w \in Workers |-> <<>>]
    /\ restart_log' = [w \in Workers |-> NoRestart]
    /\ sessions_open' = [w \in Workers |-> 0]
    /\ UNCHANGED <<call, input, args, platform, diskVars, csv_files, idx, checkpoint_data,
                   all_failed_urls, processed_set, last_ckpt, attempts_log>>

\* process_csv_file, lines 168-169 and 248-251: pd.read_csv or the column
\* lookup raises; the outer except logs it and ([], []) is returned
ReadCsvFails ==
    /\ mpc = "loop"
    /\ idx <= Len(csv_files)
    /\ all_results' = <<>>
    /\ failed_urls' = <<>>
    /\ group_error' = group_error \cup {CurGroup}
    /\ mpc' = "save"
    /\ UNCHANGED <<call, input, args, platform, diskVars, csv_files, idx, checkpoint_data,
                   all_failed_urls, processed_set, last_ckpt, seq_idx,
                   seq_retry_count, url_batches, workerVars, attempts_log>>

\* main, lines 117-131 with save_results_to_csv: the group's artifact is
\* written when the result list is not empty
SaveResults ==
    /\ mpc = "save"
    /\ output' = IF NumEntries(all_results) > 0
                 THEN [output EXCEPT ![CurGroup] =
                          [exists |-> TRUE, rows |-> all_results]]
                 ELSE output
    /\ mpc' = "ckpt"
    /\ UNCHANGED <<call, input, args, platform, ckptFile, failedFile, csv_files, idx,
                   checkpoint_data, all_failed_urls, processed_set, last_ckpt,
                   group_error, groupVars, workerVars, attempts_log>>

\* main, lines 134-138, and save_checkpoint's open(checkpoint_file, 'w'):
\* the lists are extended and the file is truncated for writing
CheckpointOpen ==
    /\ mpc = "ckpt"
    /\ all_failed_urls' = all_failed_urls \o failed_urls
    /\ checkpoint_data' =
          [processed_files |-> Append(checkpoint_data.processed_files, CurGroup),
           failed_urls |-> all_failed_urls \o failed_urls]
    /\ ckptFile' = TruncatedFile
    /\ mpc' = "dump"
    /\ UNCHANGED <<call, input, args, platform, output, failedFile, csv_files, idx,
                   processed_set, last_ckpt, group_error, groupVars, workerVars,
                   attempts_log>>

\* save_checkpoint, line 87: json.dump writes the document and the file closes
CheckpointDump ==
    /\ mpc = "dump"
    /\ ckptFile' = CompleteFile(checkpoint_data)
    /\ last_ckpt' = checkpoint_data
    /\ idx' = idx + 1
    /\ mpc' = "loop"
    /\ UNCHANGED <<call, input, args, platform, output, failedFile, csv_files,
                   checkpoint_data, all_failed_urls, processed_set, group_error,
                   groupVars, workerVars, attempts_log>>

\* main, lines 141-149, with save_failed_urls
MainFinish ==
    /\ mpc = "loop"
    /\ idx > Len(csv_files)
    /\ failedFile' = IF all_failed_urls # <<>>
                     THEN [exists |-> TRUE, rows |-> all_failed_urls]
                     ELSE failedFile
    /\ mpc' = "done"
    /\ UNCHANGED <<call, input, args, platform, ckptFile, output, csv_files, idx,
                   checkpoint_data, all_failed_urls, processed_set, last_ckpt,
                   group_error, groupVars, workerVars, attempts_log>>


\* ---------------------------------------------------------------- sessions
\* what the machine does to one create_driver call: whether a chromedriver
\* binary is found or installed, and whether each browser launch succeeds
Launches == [service : BOOLEAN, launch : [1..max_attempts -> BOOLEAN]]

RECURSIVE launch_loop(_, _)
\* scraper.create_driver, lines 176-187: for attempt in range(max_attempts);
\* launched counts the launches made, slept lists the pauses
launch_loop(launches, attempt) ==
    IF launches.launch[attempt + 1]
    THEN [ok |-> TRUE, launched |-> attempt + 1, slept |-> <<>>]
    ELSE IF attempt < max_attempts - 1
    THEN LET rest == launch_loop(launches, attempt + 1) IN
         [rest EXCEPT !.slept = <<2>> \o @]
    ELSE [ok |-> FALSE, launched |-> attempt + 1, slept |-> <<>>]

\* a create_driver without its retry loop: one launch
create_driver_once(launches) ==
    IF ~launches.service THEN [ok |-> FALSE, launched |-> 0, slept |-> <<>>]
    ELSE [ok |-> launches.launch[1], launched |-> 1, slept |-> <<>>]

\* scraper.create_driver, lines 151-187: without a chromedriver the function
\* raises before any launch; otherwise up to max_attempts launches, the
\* first one that succeeds is returned, the last failure is raised
create_driver(launches) ==
    IF ~launches.service THEN [ok |-> FALSE, launched |-> 0, slept |-> <<>>]
    ELSE launch_loop(launches, 0)

\* driver.current_url: answers on a live session; raises on a session that
\* is gone and (AttributeError) on None
current_url(d) == [raised |-> d # "Live"]

\* scraper.is_driver_alive, lines 200-205, as a call: True when current_url
\* answers, False from the bare except
is_driver_alive_call(d) ==
    [raised |-> FALSE, value |-> ~current_url(d).raised]

\* scraper.is_driver_alive: current_url answers only on a live session
is_driver_alive(d) == is_driver_alive_call(d).value

\* a driver.quit() outside any try, as in scrape_match_and_odds line 489
try_quit_unguarded(d, quit_raises) ==
    [raised |-> quit_raises, session |-> IF quit_raises THEN d ELSE "Dead"]

\* force_quit_driver, lines 57-61: try: driver.quit() / except: pass
try_quit(d, quit_raises) ==
    [raised |-> FALSE, session |-> IF quit_raises THEN d ELSE "Dead"]

\* force_quit_driver, lines 63-75: the service process is terminated (and
\* killed); an exception, as from a process already gone, is passed over
try_terminate(d, terminate_raises) ==
    [raised |-> FALSE, session |-> "Dead"]

\* cleanup_chromedriver_processes, lines 29-44: each branch passes over the
\* exceptions of subprocess.run
try_sweep(d, pkill_raises) ==
    [raised |-> FALSE, session |-> d]

\* scraper.cleanup_chromedriver_processes: pkill -9 of every chromedriver
\* and headless Chrome process of the machine, on macOS and Linux
cleanup_chromedriver_processes(drivers) ==
    IF platform \in {"Darwin", "Linux"}
    THEN [v \in DOMAIN drivers |->
            IF drivers[v] = "Live" THEN "Dead" ELSE drivers[v]]
    ELSE drivers

\* a force_quit_driver that ends nothing
force_quit_driver_skip(drivers, w) == drivers

\* scraper.force_quit_driver: nothing for no driver; otherwise quit, kill
\* the service process, then the system-wide sweep
force_quit_driver(drivers, w) ==
    IF drivers[w] = None THEN drivers
    ELSE cleanup_chromedriver_processes([drivers EXCEPT ![w] = "Dead"])

\* outcomes of scrape_match_and_odds_with_driver on a live session: an empty
\* list, a list of MaxEntries entries, or the exception of the navigation
ProtocolOutcomes ==
    {[ok |-> TRUE, n |-> k, err |-> NoError] : k \in {0, MaxEntries}}
    \cup {[ok |-> FALSE, n |-> 0, err |-> e] : e \in ProtoErrors}

Failed(e) == [ok |-> FALSE, n |-> 0, err |-> e]

\* scraper.scrape_match_and_odds, lines 485-489: a session of its own per
\* call; an exception of driver.quit() in the finally replaces the outcome
scrape_match_and_odds(launches, out, quit_ok) ==
    IF ~create_driver(launches).ok THEN Failed(NotCreatedMsg)
    ELSE IF ~quit_ok THEN Failed(QuitFailedMsg)
    ELSE out

\* an attempt that calls the protocol without looking at the session
AttemptOutcomes_unprobed(d) == ProtocolOutcomes

\* an attempt whose failed probe raises the message of a timeout
AttemptOutcomes_timeout(d) ==
    IF ~is_driver_alive(d) THEN {Failed(TimeoutMsg)} ELSE ProtocolOutcomes

\* process_url_batch, lines 55-59: the probe, then the protocol
AttemptOutcomes(d) ==
    IF ~is_driver_alive(d) THEN {Failed(DriverLostMsg)} ELSE ProtocolOutcomes

\* a retry test that allows a fourth attempt
RetriesLeft_late(rc) == rc < max_retries + 1

\* the retry test with the bound off by one: a URL is given up after two
\* failed attempts
RetriesLeft_early(rc) == rc < max_retries - 1

\* lines 88 and 206: retries are left after the failure counted as rc
RetriesLeft(rc) == rc < max_retries

\* the restart test without the forced restart of the second failure
RestartNeeded_critical_only(err, rc) == critical_error(err)

\* a restart before every retry
RestartNeeded_always(err, rc) == TRUE

\* line 99: restart the browser before the next attempt
RestartNeeded(err, rc) == critical_error(err) \/ rc = 2

\* ------------------------------------- process_csv_file, sequential path
\* the sequential loop runs in the main thread; its attempts are logged in
\* the slot of the first worker, which is idle then
SeqLoop == 0

\* lines 175-223: one iteration of the retry loop of the current URL
SeqAttempt ==
    /\ mpc = "seq"
    /\ \E launches \in Launches, out \in ProtocolOutcomes, quit_ok \in BOOLEAN :
       LET urls == UrlsOf(CurGroup)
           url == urls[seq_idx]
           res == scrape_match_and_odds(launches, out, quit_ok)
           rc == seq_retry_count + 1
           advance == /\ seq_retry_count' = 0
                      /\ IF seq_idx = Len(urls)
                         THEN mpc' = "save" /\ seq_idx' = 0
                         ELSE mpc' = mpc /\ seq_idx' = seq_idx + 1
       IN /\ IF res.ok
             THEN /\ all_results' = Append(all_results,
                        [url |-> url, n |-> res.n])
                  /\ failed_urls' = failed_urls
                  /\ attempts_log' = [attempts_log EXCEPT ![SeqLoop] = 0]
                  /\ advance
             ELSE IF RetriesLeft(rc)
             THEN /\ seq_retry_count' = rc
                  /\ attempts_log' = [attempts_log EXCEPT ![SeqLoop] = @ + 1]
                  /\ UNCHANGED <<all_results, failed_urls, mpc, seq_idx>>
             ELSE /\ failed_urls' = Append(failed_urls,
                        [url |-> url, error |-> res.err, csv_file |-> CurGroup,
                         attempts |-> rc])
                  /\ all_results' = all_results
                  /\ attempts_log' = [attempts_log EXCEPT ![SeqLoop] = 0]
                  /\ advance
    /\ UNCHANGED <<call, input, args, platform, diskVars, csv_files, idx, checkpoint_data,
                   all_failed_urls, processed_set, last_ckpt, group_error,
                   url_batches, workerVars>>

\* ----------------------------------------------- process_url_batch (pool)
CurUrl(w) == url_batches[w][widx[w]]

\* the for loop moves to the next URL of the batch, or ends
NextUrl(w) ==
    /\ retry_count' = [retry_count EXCEPT ![w] = 0]
    /\ error_msg' = [error_msg EXCEPT ![w] = NoError]
    /\ restart_log' = [restart_log EXCEPT ![w] = NoRestart]
    /\ attempts_log' = [attempts_log EXCEPT ![w] = 0]
    /\ IF widx[w] = Len(url_batches[w])
       THEN wpc' = [wpc EXCEPT ![w] = "finally"] /\ widx' = widx
       ELSE wpc' = [wpc EXCEPT ![w] = "attempt"]
            /\ widx' = [widx EXCEPT ![w] = @ + 1]

otherVars == <<call, input, args, platform, diskVars, mainVars, all_results, failed_urls,
               seq_idx, seq_retry_count, url_batches>>

\* lines 35-38: the first worker sweeps stuck browser processes
WorkerStart(w) ==
    /\ mpc = "pool" /\ wpc[w] = "start"
    /\ driver' = IF w = 0 THEN cleanup_chromedriver_processes(driver) ELSE driver
    /\ wpc' = [wpc EXCEPT ![w] = "create"]
    /\ UNCHANGED <<otherVars, widx, retry_count, error_msg, results, wfailed,
                   restart_log, sessions_open, attempts_log>>

\* line 41: the worker's session; a failure leaves through the finally
\* with no driver and the exception reaches future.result()
WorkerCreate(w) ==
    /\ mpc = "pool" /\ wpc[w] = "create"
    /\ \E launches \in Launches :
         IF create_driver(launches).ok
         THEN /\ driver' = [driver EXCEPT ![w] = "Live"]
              /\ sessions_open' = [sessions_open EXCEPT ![w] = @ + 1]
              /\ wpc' = [wpc EXCEPT ![w] = "attempt"]
              /\ widx' = [widx EXCEPT ![w] = 1]
         ELSE /\ wpc' = [wpc EXCEPT ![w] = "raised"]
              /\ UNCHANGED <<driver, widx, sessions_open>>
    /\ UNCHANGED <<otherVars, retry_count, error_msg, results, wfailed,
                   restart_log, attempts_log>>

\* lines 49-99 and 129-137: one iteration of the retry loop
WorkerAttempt(w) ==
    /\ mpc = "pool" /\ wpc[w] = "attempt"
    /\ \E out \in AttemptOutcomes(driver[w]) :
       LET url == CurUrl(w)
           rc == retry_count[w] + 1
       IN /\ IF out.ok
             THEN /\ results' = [results EXCEPT ![w] =
                        Append(@, [url |-> url, n |-> out.n])]
                  /\ wfailed' = wfailed
                  /\ NextUrl(w)
             ELSE IF RetriesLeft(rc)
             THEN /\ retry_count' = [retry_count EXCEPT ![w] = rc]
                  /\ error_msg' = [error_msg EXCEPT ![w] = out.err]
                  /\ restart_log' = [restart_log EXCEPT ![w] = NoRestart]
                  /\ attempts_log' = [attempts_log EXCEPT ![w] = @ + 1]
                  /\ wpc' = [wpc EXCEPT ![w] =
                        IF RestartNeeded(out.err, rc) THEN "quit" ELSE "attempt"]
                  /\ UNCHANGED <<results, wfailed, widx>>
             ELSE /\ wfailed' = [wfailed EXCEPT ![w] =
                        Append(@, [url |-> url, error |-> out.err,
                                   worker_id |-> w, attempts |-> rc])]
                  /\ results' = results
                  /\ NextUrl(w)
    /\ UNCHANGED <<otherVars, driver, sessions_open>>

\* the sessions of worker w still open after force_quit_driver(driver): one
\* fewer when the call has ended the session the worker held
OpenAfterQuit(w) ==
    IF driver[w] # None /\ force_quit_driver(driver, w)[w] # "Live"
    THEN sessions_open[w] - 1 ELSE sessions_open[w]

\* lines 104-106: force_quit_driver, then the reference is cleared
WorkerQuit(w) ==
    /\ mpc = "pool" /\ wpc[w] = "quit"
    /\ driver' = [force_quit_driver(driver, w) EXCEPT ![w] = None]
    /\ sessions_open' = [sessions_open EXCEPT ![w] = OpenAfterQuit(w)]
    /\ restart_log' = [restart_log EXCEPT ![w].destroyed =
                          IF driver[w] = None THEN @ ELSE @ + 1]
    /\ wpc' = [wpc EXCEPT ![w] = "recreate"]
    /\ UNCHANGED <<otherVars, widx, retry_count, error_msg, results, wfailed,
                   attempts_log>>

\* line 109: the replacement session
WorkerRecreate(w) ==
    /\ mpc = "pool" /\ wpc[w] = "recreate"
    /\ \E launches \in Launches :
         IF create_driver(launches).ok
         THEN /\ driver' = [driver EXCEPT ![w] = "Live"]
              /\ sessions_open' = [sessions_open EXCEPT ![w] = @ + 1]
              /\ restart_log' = [restart_log EXCEPT ![w].created = @ + 1]
              /\ wpc' = [wpc EXCEPT ![w] = "attempt"]
         ELSE /\ wpc' = [wpc EXCEPT ![w] = "recover"]
              /\ UNCHANGED <<driver, restart_log, sessions_open>>
    /\ UNCHANGED <<otherVars, widx, retry_count, error_msg, results, wfailed,
                   attempts_log>>

\* a record that says all the attempts were made
restart_failed_record_exhausted(url, w, rc) ==
    [url |-> url, error |-> RestartFailedMsg, worker_id |-> w,
     attempts |-> max_retries]

\* lines 122-127: the record of a URL given up because no replacement
\* session could be created
restart_failed_record(url, w, rc) ==
    [url |-> url, error |-> RestartFailedMsg, worker_id |-> w, attempts |-> rc]

\* lines 111-128: sweep, wait, one more create; when that fails too the URL
\* is recorded as failed and its retry loop is left
WorkerRecover(w) ==
    /\ mpc = "pool" /\ wpc[w] = "recover"
    /\ \E launches \in Launches :
         IF create_driver(launches).ok
         THEN /\ driver' = [cleanup_chromedriver_processes(driver)
                               EXCEPT ![w] = "Live"]
              /\ sessions_open' = [sessions_open EXCEPT ![w] = @ + 1]
              /\ restart_log' = [restart_log EXCEPT ![w].created = @ + 1]
              /\ wpc' = [wpc EXCEPT ![w] = "attempt"]
              /\ UNCHANGED <<widx, retry_count, error_msg, wfailed,
                             attempts_log>>
         ELSE /\ driver' = cleanup_chromedriver_processes(driver)
              /\ wfailed' = [wfailed EXCEPT ![w] =
                    Append(@, restart_failed_record(CurUrl(w), w, retry_count[w]))]
              /\ sessions_open' = sessions_open
              /\ NextUrl(w)
    /\ UNCHANGED <<otherVars, results>>

\* lines 138-144: the finally quits the session the worker still holds
WorkerFinally(w) ==
    /\ mpc = "pool" /\ wpc[w] = "finally"
    /\ driver' = force_quit_driver(driver, w)
    /\ sessions_open' = [sessions_open EXCEPT ![w] = OpenAfterQuit(w)]
    /\ wpc' = [wpc EXCEPT ![w] = "returned"]
    /\ UNCHANGED <<otherVars, widx, retry_count, error_msg, results, wfailed,
                   restart_log, attempts_log>>

\* the browser of a worker dies on its own; the worker can notice it only at
\* the probe of its next attempt (force_quit_driver treats a dead session
\* like a live one)
Crash(w) ==
    /\ mpc = "pool" /\ driver[w] = "Live"
    /\ wpc[w] = "attempt"
    /\ driver' = [driver EXCEPT ![w] = "Dead"]
    /\ UNCHANGED <<otherVars, wpc, widx, retry_count, error_msg, results,
                   wfailed, restart_log, sessions_open, attempts_log>>

\* a merge that appends the worker's list back to front
extend_reversed(list, items) ==
    list \o [i \in 1..Len(items) |-> items[Len(items) + 1 - i]]

\* lines 242-243: list.extend(items)
extend(list, items) == list \o items

\* process_csv_file, lines 238-251: a finished future is merged (or its
\* exception logged); after the last one the with block ends and the
\* function returns
Collect(w) ==
    /\ mpc = "pool" /\ wpc[w] \in {"returned", "raised"}
    /\ IF wpc[w] = "returned"
       THEN /\ all_results' = extend(all_results, results[w])
            /\ failed_urls' = extend(failed_urls, wfailed[w])
       ELSE UNCHANGED <<all_results, failed_urls>>
    /\ wpc' = [wpc EXCEPT ![w] = "collected"]
    /\ mpc' = IF \A v \in Workers \ {w} : wpc[v] \in {"idle", "collected"}
              THEN "save" ELSE mpc
    /\ UNCHANGED <<call, input, args, platform, diskVars, csv_files, idx, checkpoint_data,
                   all_failed_urls, processed_set, last_ckpt, group_error,
                   seq_idx, seq_retry_count, url_batches, widx, retry_count,
                   error_msg, driver, results, wfailed, restart_log, sessions_open,
                   attempts_log>>

Next ==
    \/ MainStart
    \/ ReadCsv
    \/ ReadCsvFails
    \/ SeqAttempt
    \/ \E w \in Workers : WorkerStart(w)
    \/ \E w \in Workers : WorkerCreate(w)
    \/ \E w \in Workers : WorkerAttempt(w)
    \/ \E w \in Workers : WorkerQuit(w)
    \/ \E w \in Workers : WorkerRecreate(w)
    \/ \E w \in Workers : WorkerRecover(w)
    \/ \E w \in Workers : WorkerFinally(w)
    \/ \E w \in Workers : Crash(w)
    \/ \E w \in Workers : Collect(w)
    \/ SaveResults
    \/ CheckpointOpen
    \/ CheckpointDump
    \/ MainFinish

Spec == Init /\ [][Next]_vars


\* ------------------------------------- the workers of one group, scheduled
\* process_csv_file, lines 225-236, on a file of MaxTargets URLs: the
\* batches are submitted to a pool of the 2..MaxWorkers workers asked for,
\* on a platform where the sweeps end the sessions of every worker
InitPool ==
    /\ call = NoCall
    /\ input = <<MaxTargets>>
    /\ args \in [resume : {FALSE}, workers : 2..MaxWorkers]
    /\ platform = "Linux"
    /\ ckptFile = AbsentFile
    /\ output = [g \in Groups |-> [exists |-> FALSE, rows |-> <<>>]]
    /\ failedFile = [exists |-> FALSE, rows |-> <<>>]
    /\ mpc = "pool"
    /\ csv_files = find_csv_files
    /\ idx = 1
    /\ checkpoint_data = EmptyCheckpoint
    /\ all_failed_urls = <<>>
    /\ processed_set = {}
    /\ last_ckpt = EmptyCheckpoint
    /\ group_error = {}
    /\ all_results = <<>>
    /\ failed_urls = <<>>
    /\ seq_idx = 0
    /\ seq_retry_count = 0
    /\ LET b == Batches(UrlsOf(1), args.workers) IN
       /\ url_batches = [w \in Workers |->
                            IF w + 1 \in DOMAIN b THEN b[w + 1] ELSE <<>>]
       /\ wpc = [w \in Workers |->
                    IF w + 1 \in DOMAIN b /\ b[w + 1] # <<>>
                    THEN "start" ELSE "idle"]
    /\ widx = [w \in Workers |-> 0]
    /\ retry_count = [w \in Workers |-> 0]
    /\ error_msg = [w \in Workers |-> NoError]
    /\ driver = [w \in Workers |-> None]
    /\ results = [w \in Workers |-> <<>>]
    /\ wfailed = [w \in Workers |-> <<>>]
    /\ restart_log = [w \in Workers |-> NoRestart]
    /\ sessions_open = [w \in Workers |-> 0]
    /\ attempts_log = [w \in Workers |-> 0]

\* process_url_batch, lines 35-144: the next statement of worker w
WorkerStep(w) ==
    \/ WorkerStart(w)
    \/ WorkerCreate(w)
    \/ WorkerAttempt(w)
    \/ WorkerQuit(w)
    \/ WorkerRecreate(w)
    \/ WorkerRecover(w)
    \/ WorkerFinally(w)

NextPool ==
    \/ \E w \in Workers : WorkerStep(w)
    \/ \E w \in Workers : Crash(w)

\* the executor runs each submitted worker in a thread of its own and every
\* call a worker makes returns: a worker that can take a step takes it
SpecPool ==
    /\ InitPool
    /\ [][NextPool]_vars
    /\ \A w \in Workers : WF_vars(WorkerStep(w))


\* ------------------------------------------ the batcher, called on its own
\* the batcher of process_csv_file on a list of n distinct URLs for W workers
InitBatch ==
    /\ NotRunning
    /\ \E n \in 1..MaxBatchUrls, W \in 2..MaxBatchWorkers :
          call = [op |-> "Batches", urls |-> [i \in 1..n |-> <<1, i>>],
                  num_workers |-> W, done |-> FALSE, url_batches |-> <<>>]

\* lines 226-236: the sub-lists, and the ones submitted to the pool
CallBatches ==
    /\ call.op = "Batches" /\ ~call.done
    /\ call' = [call EXCEPT !.done = TRUE,
                            !.url_batches = Batches(call.urls, call.num_workers)]
    /\ UNCHANGED programVars

NextBatch == CallBatches

SpecBatch == InitBatch /\ [][NextBatch]_vars


\* ------------------------ the two retry loops, run on the same outcomes
\* the locals of one retry loop, with the waits it has slept before retries
RetryStart ==
    [retry_count |-> 0, success |-> FALSE, attempts |-> 0, sleeps |-> <<>>,
     restarts |-> 0, results |-> <<>>, failed_urls |-> <<>>, events |-> <<>>]

\* what a retry loop does, in order: an attempt that returns ("ok") or
\* raises ("fail"), a time.sleep(t) of t seconds, force_quit_driver
\* ("destroy"), create_driver ("create"), failed_urls.append ("record"), and
\* the short delay after a success ("pause": WAIT_DELAY, or 1 second)
Event(e, t) == [e |-> e, t |-> t]

\* lines 49 and 180: while retry_count < max_retries and not success
Looping(st) == st.retry_count < max_retries /\ ~st.success

\* a wait of the same 2 seconds before every retry
wait_time_fixed(rc) == 2

\* lines 94 and 209: wait_time = 2 ** retry_count
wait_time(rc) == 2 ^ rc

\* a sequential loop that waits the same 2 seconds before every retry
seq_iteration_fixed_wait(st, url, res) ==
    IF res.ok
    THEN [st EXCEPT !.attempts = @ + 1, !.success = TRUE,
                    !.results = Append(@, [url |-> url, n |-> res.n])]
    ELSE LET rc == st.retry_count + 1 IN
         IF RetriesLeft(rc)
         THEN [st EXCEPT !.attempts = @ + 1, !.retry_count = rc,
                         !.sleeps = Append(@, 2)]
         ELSE [st EXCEPT !.attempts = @ + 1, !.retry_count = rc,
                         !.failed_urls = Append(@,
                            [url |-> url, error |-> res.err, csv_file |-> 1,
                             attempts |-> rc])]

\* a sequential loop that extends the result list in a finally: also with
\* what the failed attempt left
seq_iteration_extend_always(st, url, res) ==
    IF res.ok
    THEN [st EXCEPT !.attempts = @ + 1, !.success = TRUE,
                    !.results = Append(@, [url |-> url, n |-> res.n])]
    ELSE LET rc == st.retry_count + 1 IN
         IF RetriesLeft(rc)
         THEN [st EXCEPT !.attempts = @ + 1, !.retry_count = rc,
                         !.sleeps = Append(@, wait_time(rc)),
                         !.results = Append(@, [url |-> url, n |-> res.n])]
         ELSE [st EXCEPT !.attempts = @ + 1, !.retry_count = rc,
                         !.results = Append(@, [url |-> url, n |-> res.n]),
                         !.failed_urls = Append(@,
                            [url |-> url, error |-> res.err, csv_file |-> 1,
                             attempts |-> rc])]

\* process_csv_file, lines 180-223: one iteration of the sequential loop,
\* res being what scrape_match_and_odds returned or raised
seq_iteration(st, url, res) ==
    IF res.ok
    THEN [st EXCEPT !.attempts = @ + 1, !.success = TRUE,
                    !.results = Append(@, [url |-> url, n |-> res.n]),
                    !.events = @ \o <<Event("ok", 0), Event("pause", 0)>>]
    ELSE LET rc == st.retry_count + 1 IN
         IF RetriesLeft(rc)
         THEN [st EXCEPT !.attempts = @ + 1, !.retry_count = rc,
                         !.sleeps = Append(@, wait_time(rc)),
                         !.events = @ \o <<Event("fail", 0),
                                           Event("sleep", wait_time(rc))>>]
         ELSE [st EXCEPT !.attempts = @ + 1, !.retry_count = rc,
                         !.failed_urls = Append(@,
                            [url |-> url, error |-> res.err, csv_file |-> 1,
                             attempts |-> rc]),
                         !.events = @ \o <<Event("fail", 0), Event("record", 0)>>]

\* process_url_batch, lines 49-137: one iteration of the pooled loop, out
\* being what the probe and scrape_match_and_odds_with_driver returned or
\* raised; the restart, when one is made, gets its new session
pool_iteration(st, url, out, w) ==
    IF out.ok
    THEN [st EXCEPT !.attempts = @ + 1, !.success = TRUE,
                    !.results = Append(@, [url |-> url, n |-> out.n]),
                    !.events = @ \o <<Event("ok", 0), Event("pause", 0)>>]
    ELSE LET rc == st.retry_count + 1 IN
         IF RetriesLeft(rc)
         THEN [st EXCEPT !.attempts = @ + 1, !.retry_count = rc,
                         !.sleeps = Append(@, wait_time(rc)),
                         !.restarts = IF RestartNeeded(out.err, rc)
                                      THEN @ + 1 ELSE @,
                         !.events = @ \o <<Event("fail", 0),
                                           Event("sleep", wait_time(rc))>>
                                      \o (IF RestartNeeded(out.err, rc)
                                          THEN <<Event("destroy", 0),
                                                 Event("sleep", restart_pause),
                                                 Event("create", 0)>>
                                          ELSE <<>>)]
         ELSE [st EXCEPT !.attempts = @ + 1, !.retry_count = rc,
                         !.failed_urls = Append(@,
                            [url |-> url, error |-> out.err, worker_id |-> w,
                             attempts |-> rc]),
                         !.events = @ \o <<Event("fail", 0), Event("record", 0)>>]

\* every launch of a browser succeeds
LaunchesOk == [service |-> TRUE, launch |-> [a \in 1..max_attempts |-> TRUE]]

\* one URL, and the outcome each of its attempts will have in either loop
InitRetry ==
    /\ NotRunning
    /\ \E outcomes \in [1..max_retries -> ProtocolOutcomes] :
          call = [op |-> "retry", outcomes |-> outcomes,
                  seq |-> RetryStart, pool |-> RetryStart]

RetrySeq ==
    /\ call.op = "retry" /\ Looping(call.seq)
    /\ call' = [call EXCEPT !.seq = seq_iteration(@, <<1, 1>>,
                    scrape_match_and_odds(LaunchesOk,
                        call.outcomes[call.seq.attempts + 1], TRUE))]
    /\ UNCHANGED programVars

RetryPool ==
    /\ call.op = "retry" /\ Looping(call.pool)
    /\ \E out \in AttemptOutcomes("Live") :
          /\ out = call.outcomes[call.pool.attempts + 1]
          /\ call' = [call EXCEPT !.pool = pool_iteration(@, <<1, 1>>, out, 0)]
    /\ UNCHANGED programVars

NextRetry == RetrySeq \/ RetryPool

SpecRetry == InitRetry /\ [][NextRetry]_vars


\* ------------- the two retry loops on attempts that extract, then may fail
\* no chromedriver is found: create_driver raises
NoService == [service |-> FALSE, launch |-> [a \in 1..max_attempts |-> FALSE]]

\* what happens in one attempt on the URL: whether the session of the
\* sequential call is created, what the protocol returns or raises, and
\* whether driver.quit() of the sequential call returns
AttemptEnvs == [created : BOOLEAN, out : ProtocolOutcomes, quit_ok : BOOLEAN]

\* process_csv_file, line 186: what scrape_match_and_odds returns or raises
\* in an attempt
SeqCall(env) ==
    scrape_match_and_odds(IF env.created THEN LaunchesOk ELSE NoService,
                          env.out, env.quit_ok)

InitAttempts ==
    /\ NotRunning
    /\ \E envs \in [1..max_retries -> AttemptEnvs] :
          call = [op |-> "attempts", envs |-> envs,
                  seq |-> RetryStart, pool |-> RetryStart]

AttemptsSeq ==
    /\ call.op = "attempts" /\ Looping(call.seq)
    /\ call' = [call EXCEPT !.seq = seq_iteration(@, <<1, 1>>,
                    SeqCall(call.envs[call.seq.attempts + 1]))]
    /\ UNCHANGED programVars

AttemptsPool ==
    /\ call.op = "attempts" /\ Looping(call.pool)
    /\ \E out \in AttemptOutcomes("Live") :
          /\ out = call.envs[call.pool.attempts + 1].out
          /\ call' = [call EXCEPT !.pool = pool_iteration(@, <<1, 1>>, out, 0)]
    /\ UNCHANGED programVars

NextAttempts == AttemptsSeq \/ AttemptsPool

SpecAttempts == InitAttempts /\ [][NextAttempts]_vars


\* -------------------------------- the session helpers, called on their own
NoProbe == [made |-> FALSE, raised |-> FALSE, value |-> FALSE]

\* force_quit_driver is called twice on the same driver, which is None, a
\* live session or a session already gone; create_driver is called once
InitSession ==
    /\ NotRunning
    /\ \/ \E d \in {None, "Live", "Dead"} :
            call = [op |-> "force_quit_driver", driver |-> d, session |-> d,
                    pc |-> "idle", calls |-> 0, passed |-> <<>>,
                    probe |-> NoProbe]
       \/ \E launches \in Launches :
            call = [op |-> "create_driver", launches |-> launches,
                    done |-> FALSE,
                    ret |-> [ok |-> FALSE, launched |-> 0, slept |-> <<>>]]

\* lines 54-55: if not driver: return
ForceQuitEnter ==
    /\ call.op = "force_quit_driver" /\ call.pc = "idle" /\ call.calls < 2
    /\ call' = IF call.driver = None
               THEN [call EXCEPT !.calls = @ + 1, !.probe = NoProbe]
               ELSE [call EXCEPT !.pc = "quit", !.probe = NoProbe]
    /\ UNCHANGED programVars

\* the next statement after a step, or the exception leaving the function
AfterStep(r, step, raises, next) ==
    /\ call' = [call EXCEPT
                  !.session = r.session,
                  !.passed = IF raises /\ ~r.raised THEN Append(@, step) ELSE @,
                  !.pc = IF r.raised THEN "raised" ELSE next,
                  !.calls = IF ~r.raised /\ next = "idle" THEN @ + 1 ELSE @]
    /\ UNCHANGED programVars

\* lines 57-61
ForceQuitQuit ==
    /\ call.op = "force_quit_driver" /\ call.pc = "quit"
    /\ \E quit_raises \in BOOLEAN :
          AfterStep(try_quit(call.session, quit_raises), "quit", quit_raises,
                    "terminate")

\* lines 63-75
ForceQuitTerminate ==
    /\ call.op = "force_quit_driver" /\ call.pc = "terminate"
    /\ \E terminate_raises \in BOOLEAN :
          AfterStep(try_terminate(call.session, terminate_raises), "terminate",
                    terminate_raises, "sweep")

\* line 78
ForceQuitSweep ==
    /\ call.op = "force_quit_driver" /\ call.pc = "sweep"
    /\ \E pkill_raises \in BOOLEAN :
          AfterStep(try_sweep(call.session, pkill_raises), "sweep",
                    pkill_raises, "idle")

\* is_driver_alive on the driver, between the calls
Probe ==
    /\ call.op = "force_quit_driver" /\ call.pc = "idle" /\ ~call.probe.made
    /\ call' = [call EXCEPT !.probe =
                    [made |-> TRUE,
                     raised |-> is_driver_alive_call(call.session).raised,
                     value |-> is_driver_alive(call.session)]]
    /\ UNCHANGED programVars

CallCreate ==
    /\ call.op = "create_driver" /\ ~call.done
    /\ call' = [call EXCEPT !.done = TRUE, !.ret = create_driver(call.launches)]
    /\ UNCHANGED programVars

NextSession ==
    \/ ForceQuitEnter
    \/ ForceQuitQuit
    \/ ForceQuitTerminate
    \/ ForceQuitSweep
    \/ Probe
    \/ CallCreate

SpecSession == InitSession /\ [][NextSession]_vars


\* ----------------------------- the extraction protocol, called on its own
\* config.DEFAULT_HANDICAPS, split at the commas by main
Handicaps == <<"+2.5", "+3", "+3.5">>

Sentinel == "N/A"

\* what the page does to each step of the protocol. cookie: the consent
\* button is clicked, is not there in 3 seconds (TimeoutException), or the
\* wait or the click raises another WebDriverException. home, away: the name
\* is read with the selector, with the fallback selector, or with neither.
\* time: the kickoff is parsed, no container is found, the text has too few
\* lines (IndexError), the text is no date (ValueError), or reading the text
\* of the container raises a WebDriverException (a stale element)
PageEnvs ==
    [alive : BOOLEAN, get : BOOLEAN,
     cookie : {"clicked", "TimeoutException", "WebDriverException"},
     home : {"selector", "fallback", "none"},
     away : {"selector", "none"},
     time : {"parsed", "none", "IndexError", "ValueError", "WebDriverException"}]

\* scrape_match_and_odds_with_driver, lines 239-246: only TimeoutException
\* is passed over
cookie_step(cookie) ==
    [raised |-> cookie \notin {"clicked", "TimeoutException"}]

\* extract_match_info, lines 305-346: every exception is passed over
team_name(found, text) == IF found = "none" THEN Sentinel ELSE text

\* extract_match_info, lines 349-375: the lookups pass over every
\* exception; the parsing passes over IndexError, ValueError, AttributeError
match_date_utc(time) ==
    IF time = "parsed" THEN [raised |-> FALSE, value |-> "2024-01-01T00:00:00Z"]
    ELSE IF time \in {"none", "IndexError", "ValueError", "AttributeError"}
    THEN [raised |-> FALSE, value |-> Sentinel]
    ELSE [raised |-> TRUE, value |-> Sentinel]

\* scraper.extract_match_info
extract_match_info(env) ==
    [raised |-> match_date_utc(env.time).raised,
     match_info |-> [home_team |-> team_name(env.home, "home"),
                     away_team |-> team_name(env.away, "away"),
                     match_date_utc |-> match_date_utc(env.time).value]]

NoMatchInfo ==
    [home_team |-> Sentinel, away_team |-> Sentinel, match_date_utc |-> Sentinel]

\* what the page does to one descriptor: its row is not there, does not
\* expand, is read and collapsed, raises in a bookmaker row, or does not
\* collapse; read counts the entries appended before that
HandicapOutcomes ==
    {[kind |-> k, read |-> 0] : k \in {"absent", "expand_fails"}}
    \cup {[kind |-> k, read |-> n] :
            k \in {"read", "row_raises", "collapse_fails"},
            n \in {0, MaxEntries}}

\* the entries appended for a descriptor
Entries(handicap, read, match_info) ==
    [j \in 1..read |-> [odd_type |-> handicap, n |-> j, match |-> match_info]]

\* an extract_odds_for_handicap whose exceptions leave the function
extract_odds_for_handicap_unguarded(handicap, o, match_info) ==
    [raised |-> o.kind # "read",
     odds_data |-> Entries(handicap, o.read, match_info)]

\* scraper.extract_odds_for_handicap, lines 399-468: except Exception: pass
\* around everything, then return odds_data
extract_odds_for_handicap(handicap, o, match_info) ==
    [raised |-> FALSE, odds_data |-> Entries(handicap, o.read, match_info)]

InitProtocol ==
    /\ NotRunning
    /\ \E env \in PageEnvs :
          call = [op |-> "scrape", env |-> env, pc |-> "enter",
                  match_info |-> NoMatchInfo, visited |-> <<>>,
                  reads |-> <<>>, all_odds_data |-> <<>>]

\* scrape_match_and_odds_with_driver, lines 221-249: the exception of the
\* probe, of driver.get, of the consent button or of extract_match_info
\* leaves the function
ScrapeEnter ==
    /\ call.op = "scrape" /\ call.pc = "enter"
    /\ call' =
         IF ~call.env.alive \/ ~call.env.get
            \/ cookie_step(call.env.cookie).raised
            \/ extract_match_info(call.env).raised
         THEN [call EXCEPT !.pc = "aborted"]
         ELSE [call EXCEPT !.pc = "handicaps",
                           !.match_info = extract_match_info(call.env).match_info]
    /\ UNCHANGED programVars

\* lines 252-257: the next descriptor of the list
ScrapeHandicap ==
    /\ call.op = "scrape" /\ call.pc = "handicaps"
    /\ Len(call.visited) < Len(Handicaps)
    /\ \E o \in HandicapOutcomes :
         LET handicap == Handicaps[Len(call.visited) + 1]
             r == extract_odds_for_handicap(handicap, o, call.match_info)
         IN call' =
              IF r.raised THEN [call EXCEPT !.pc = "raised"]
              ELSE [call EXCEPT !.visited = Append(@, handicap),
                                !.reads = Append(@, o),
                                !.all_odds_data = @ \o r.odds_data]
    /\ UNCHANGED programVars

\* line 262
ScrapeReturn ==
    /\ call.op = "scrape" /\ call.pc = "handicaps"
    /\ Len(call.visited) = Len(Handicaps)
    /\ call' = [call EXCEPT !.pc = "returned"]
    /\ UNCHANGED programVars

NextProtocol == ScrapeEnter \/ ScrapeHandicap \/ ScrapeReturn

SpecProtocol == InitProtocol /\ [][NextProtocol]_vars


\* ------------------------------ one bookmaker row of an expanded descriptor
\* the texts an odds element of a row can show
OddsTexts == {"1.85", "2.05", "", "-", "N/A"}

\* the rows explored: the bookmaker name is found or not, and the row has up
\* to MaxOddsElements odds elements
BookmakerRows ==
    [bookmaker : BOOLEAN,
     odds_elements : UNION {[1..k -> OddsTexts] : k \in 0..MaxOddsElements}]

\* line 426: odds_elements[0].text if len(odds_elements) > 0 else 'N/A'
over_odds(odds_elements) ==
    IF Len(odds_elements) > 0 THEN odds_elements[1] ELSE Sentinel

\* line 427: odds_elements[1].text if len(odds_elements) > 1 else 'N/A'
under_odds(odds_elements) ==
    IF Len(odds_elements) > 1 THEN odds_elements[2] ELSE Sentinel

\* a filter that lets the placeholder dash through
Emitted_dash(odds) == odds # Sentinel

\* lines 429 and 442: odds not in ['N/A', '-']
Emitted(odds) == odds \notin {Sentinel, "-"}

\* lines 430-440 and 443-453: the appended entry (the columns that the row
\* and the side decide)
OddsEntry(side, handicap, odds) ==
    [odd_type |-> <<side, handicap>>, odds |-> odds]

\* extract_odds_for_handicap, lines 421-456: the body of the loop over the
\* bookmaker rows; a row without a bookmaker name is skipped
bookmaker_row(row, handicap) ==
    IF ~row.bookmaker THEN <<>>
    ELSE (IF Emitted(over_odds(row.odds_elements))
          THEN <<OddsEntry("Over", handicap, over_odds(row.odds_elements))>>
          ELSE <<>>)
         \o (IF Emitted(under_odds(row.odds_elements))
             THEN <<OddsEntry("Under", handicap, under_odds(row.odds_elements))>>
             ELSE <<>>)

InitRow ==
    /\ NotRunning
    /\ \E row \in BookmakerRows :
          call = [op |-> "bookmaker_row", row |-> row, handicap |-> Handicaps[1],
                  done |-> FALSE, odds_data |-> <<>>]

CallRow ==
    /\ call.op = "bookmaker_row" /\ ~call.done
    /\ call' = [call EXCEPT !.done = TRUE,
                            !.odds_data = bookmaker_row(call.row, call.handicap)]
    /\ UNCHANGED programVars

NextRow == CallRow

SpecRow == InitRow /\ [][NextRow]_vars


\* ------------------------------------ parse_url_for_info, called on its own
\* a URL is the list of its segments between slashes; a segment is the list
\* of its tokens between hyphens (the empty list for the empty string); a
\* token is a word, a number of four digits, or the five characters \dddd
Word(text) == [kind |-> "word", text |-> text, year |-> 0]
Year(y) == [kind |-> "year", text |-> "", year |-> y]
EscapedD == [kind |-> "escaped", text |-> "\\dddd", year |-> 0]

EmptySeg == <<>>
Seg(text) == <<Word(text)>>
SlugTokens == {Word("premier"), Word("league"), Year(2020), Year(2021), EscapedD}
Slugs == UNION {[1..k -> SlugTokens] : k \in 1..MaxSlugTokens}

\* the URLs explored: with or without scheme and host, with or without
\* /football/<country>, a league segment, with or without a match segment
\* and a trailing slash; and some URLs too short to have a league segment
Urls ==
    {prefix \o middle \o <<slug>> \o tail :
        prefix \in {<<>>, <<Seg("https:"), EmptySeg, Seg("x")>>},
        middle \in {<<>>, <<Seg("football"), Seg("country")>>},
        slug \in Slugs,
        tail \in {<<>>, <<Seg("match")>>, <<Seg("match"), EmptySeg>>}}
    \cup {<<>>, <<EmptySeg, EmptySeg>>, <<Seg("football")>>,
          <<Seg("x"), EmptySeg>>,
          <<Seg("https:"), EmptySeg, Seg("x")>>,
          <<Seg("https:"), EmptySeg, Seg("x"), Seg("football"), Seg("country"),
            EmptySeg>>}

RECURSIVE lstrip(_)
lstrip(segs) ==
    IF segs # <<>> /\ Head(segs) = EmptySeg THEN lstrip(Tail(segs)) ELSE segs

RECURSIVE rstrip(_)
rstrip(segs) ==
    IF segs # <<>> /\ segs[Len(segs)] = EmptySeg
    THEN rstrip(SubSeq(segs, 1, Len(segs) - 1)) ELSE segs

\* lines 22-23: url.split('/#')[0].strip('/').split('/'); the split of the
\* empty string is one empty part
clean_parts(url) ==
    IF rstrip(lstrip(url)) = <<>> THEN <<EmptySeg>> ELSE rstrip(lstrip(url))

\* lines 29-33: the part two after the first 'football', or None (here the
\* empty segment, which the test of line 35 treats alike)
after_football(parts) ==
    IF \E i \in 1..Len(parts) : parts[i] = Seg("football")
    THEN LET football_idx ==
                 (CHOOSE i \in 1..Len(parts) :
                     /\ parts[i] = Seg("football")
                     /\ \A j \in 1..(i - 1) : parts[j] # Seg("football")) - 1
         IN IF Len(parts) > football_idx + 2 THEN parts[football_idx + 3]
            ELSE EmptySeg
    ELSE EmptySeg

\* lines 35-44: the fallback; found is False where the function returns the
\* sentinel pair at line 44
league_season_slug(parts) ==
    IF after_football(parts) # EmptySeg
    THEN [found |-> TRUE, slug |-> after_football(parts)]
    ELSE IF Len(parts) >= 2
    THEN [found |-> TRUE,
          slug |-> IF parts[Len(parts)] # EmptySeg THEN parts[Len(parts) - 1]
                   ELSE IF Len(parts) >= 3 THEN parts[Len(parts) - 2]
                   ELSE parts[Len(parts) - 1]]
    ELSE [found |-> FALSE, slug |-> EmptySeg]

\* what the pattern takes for \\d{4} (parser.py line 48: a backslash, then
\* four letters d) or for \d{4} (getodd.py line 54: four digits)
FourOf(pattern, token) ==
    IF pattern = "\\\\d{4}" THEN token.kind = "escaped" ELSE token.kind = "year"

\* re.compile(r'^(.+?)-(<four>(?:-<four>)?)$').match(slug): group 1 is the
\* shortest non-empty head, group 2 one or two fours at the end
pattern_match(pattern, slug) ==
    LET n == Len(slug) IN
    IF n >= 3 /\ FourOf(pattern, slug[n]) /\ FourOf(pattern, slug[n - 1])
    THEN [matched |-> TRUE, group1 |-> SubSeq(slug, 1, n - 2),
          group2 |-> SubSeq(slug, n - 1, n)]
    ELSE IF n >= 2 /\ FourOf(pattern, slug[n])
    THEN [matched |-> TRUE, group1 |-> SubSeq(slug, 1, n - 1),
          group2 |-> SubSeq(slug, n, n)]
    ELSE [matched |-> FALSE, group1 |-> <<>>, group2 |-> <<>>]

\* str.title() on the words of the model
Capitalized ==
    [t \in {"premier", "league", "https:", "x", "football", "country", "match",
            "", "\\dddd"} |->
        CASE t = "premier" -> "Premier" [] t = "league" -> "League"
          [] t = "https:" -> "Https:" [] t = "x" -> "X"
          [] t = "football" -> "Football" [] t = "country" -> "Country"
          [] t = "match" -> "Match" [] t = "\\dddd" -> "\\Dddd"
          [] OTHER -> t]

\* lines 56 and 67: slug.replace('-', ' ').title(), as the list of its words
humanize(slug) ==
    [i \in 1..Len(slug) |-> [slug[i] EXCEPT !.text = Capitalized[@]]]

\* the number of characters of a token
TokenLen(token) == IF token.kind = "escaped" THEN 5 ELSE 4

\* lines 59-61: a season of one token of 4 characters, YYYY, becomes
\* YYYY-(YYYY+1)
normalize_season(season_info) ==
    IF Len(season_info) = 1 /\ TokenLen(season_info[1]) = 4
    THEN <<season_info[1], Year(season_info[1].year + 1)>>
    ELSE season_info

NA == <<Word(Sentinel)>>

\* parse_url_for_info with the given pattern
parse_with(pattern, url) ==
    LET found == league_season_slug(clean_parts(url))
        match == pattern_match(pattern, found.slug)
    IN IF ~found.found
       THEN [raised |-> FALSE, league_name |-> NA, season_info |-> NA]
       ELSE IF match.matched
       THEN [raised |-> FALSE, league_name |-> humanize(match.group1),
             season_info |-> normalize_season(match.group2)]
       ELSE [raised |-> FALSE, league_name |-> humanize(found.slug),
             season_info |-> NA]

\* a parser that answers the sentinel pair whenever the pattern does not
\* match
parse_url_for_info_sentinel(url) ==
    IF pattern_match("\\\\d{4}", league_season_slug(clean_parts(url)).slug).matched
    THEN parse_with("\\\\d{4}", url)
    ELSE [raised |-> FALSE, league_name |-> NA, season_info |-> NA]

\* getodd_module/parser.py, parse_url_for_info: the pattern is written
\* r'^(.+?)-(\\d{4}(?:-\\d{4})?)$'
parse_url_for_info(url) == parse_with("\\\\d{4}", url)

\* src/getodd.py, parse_url_for_info: the pattern is written
\* r'^(.+?)-(\d{4}(?:-\d{4})?)$'
getodd_parse_url_for_info(url) == parse_with("\\d{4}", url)

NoParse == [raised |-> FALSE, league_name |-> <<>>, season_info |-> <<>>]

InitParse ==
    /\ NotRunning
    /\ \E url \in Urls :
          call = [op |-> "parse_url_for_info", url |-> url,
                  done |-> FALSE, ret |-> NoParse,
                  getodd_done |-> FALSE, getodd_ret |-> NoParse]

CallParse ==
    /\ call.op = "parse_url_for_info" /\ ~call.done
    /\ call' = [call EXCEPT !.done = TRUE, !.ret = parse_url_for_info(call.url)]
    /\ UNCHANGED programVars

CallParseGetodd ==
    /\ call.op = "parse_url_for_info" /\ ~call.getodd_done
    /\ call' = [call EXCEPT !.getodd_done = TRUE,
                            !.getodd_ret = getodd_parse_url_for_info(call.url)]
    /\ UNCHANGED programVars

NextParse == CallParse \/ CallParseGetodd

SpecParse == InitParse /\ [][NextParse]_vars


\* ------------------------ the error description written to a failure record
\* str(e) of an exception, as the list of its characters
ErrorTexts == {[i \in 1..n |-> "x"] : n \in 0..MaxErrorLen}

\* the characters of "Browser restart failed: "
RestartFailedPrefix ==
    <<"B", "r", "o", "w", "s", "e", "r", " ", "r", "e", "s", "t", "a", "r", "t",
      " ", "f", "a", "i", "l", "e", "d", ":", " ">>

\* lines 134 and 217: error_msg[:500]
exhausted_error(error_text) ==
    SubSeq(error_text, 1, Min(Len(error_text), error_limit))

\* line 124: f"Browser restart failed: {final_error}"
restart_failed_error(final_error) == RestartFailedPrefix \o final_error

\* the three places that append a failure record
RecordPaths == {"pool_exhausted", "pool_restart_failed", "seq_exhausted"}

InitRecord ==
    /\ NotRunning
    /\ \E path \in RecordPaths, e \in ErrorTexts :
          call = [op |-> "failure_record", path |-> path, e |-> e,
                  done |-> FALSE, error |-> <<>>]

\* failed_urls.append({... 'error': ...}) of lines 122-127, 132-137, 215-220
CallRecord ==
    /\ call.op = "failure_record" /\ ~call.done
    /\ call' = [call EXCEPT
                  !.done = TRUE,
                  !.error = IF call.path = "pool_restart_failed"
                            THEN restart_failed_error(call.e)
                            ELSE exhausted_error(call.e)]
    /\ UNCHANGED programVars

NextRecord == CallRecord

SpecRecord == InitRecord /\ [][NextRecord]_vars


\* --------------------------------- the classification of an error description
\* the texts tested by the two critical_error lists, as written in the code
PoolLiterals ==
    {"Stacktrace", "chrome not reachable", "session not created",
     "target window already closed", "disconnected", "Message: \n",
     "Message: unknown error", "chromedriver", "can not connect to the service",
     "unexpectedly exited", "status code was: -9", "HTTPConnectionPool",
     "Max retries exceeded", "localhost", "session", "Driver connection lost"}

\* the literals without an upper-case letter
LowerCaseLiterals ==
    {"chrome not reachable", "session not created",
     "target window already closed", "disconnected", "chromedriver",
     "can not connect to the service", "unexpectedly exited",
     "status code was: -9", "localhost", "session", "timeout"}

\* an error description is a list of fragments; a fragment is one of the
\* literals, or the word timeout, as written, in lower case or in upper case
Fragments ==
    {[text |-> t, case |-> c] :
        t \in PoolLiterals \cup {"timeout"}, c \in {"written", "upper"}}
    \cup {[text |-> t, case |-> "lower"] :
            t \in PoolLiterals \ LowerCaseLiterals}

Descriptions == UNION {[1..k -> Fragments] : k \in 0..MaxFragments}

\* str.lower()
lower(description) ==
    [i \in 1..Len(description) |-> [description[i] EXCEPT !.case = "lower"]]

\* the fragment reads as its text is written in the code
AsWritten(fragment) ==
    \/ fragment.case = "written"
    \/ fragment.case = "lower" /\ fragment.text \in LowerCaseLiterals

\* literal is a substring of text
SubLiteral(literal, text) ==
    literal = text \/ (literal = "session" /\ text = "session not created")

\* literal in description
Contains(description, literal) ==
    \E i \in 1..Len(description) :
        AsWritten(description[i]) /\ SubLiteral(literal, description[i].text)

\* process_url_batch, lines 70-86: critical_error = any([...])
pool_critical_error(msg) ==
    \/ Contains(msg, "Stacktrace")
    \/ Contains(lower(msg), "chrome not reachable")
    \/ Contains(lower(msg), "session not created")
    \/ Contains(lower(msg), "target window already closed")
    \/ Contains(lower(msg), "disconnected")
    \/ Contains(msg, "Message: \n")
    \/ Contains(lower(msg), "Message: unknown error")
    \/ Contains(lower(msg), "chromedriver")
    \/ Contains(lower(msg), "can not connect to the service")
    \/ Contains(lower(msg), "unexpectedly exited")
    \/ Contains(lower(msg), "status code was: -9")
    \/ Contains(msg, "HTTPConnectionPool")
    \/ Contains(msg, "Max retries exceeded")
    \/ Contains(msg, "localhost") /\ Contains(msg, "session")
    \/ Contains(msg, "Driver connection lost")

\* process_csv_file, lines 196-204: critical_error = any([...])
seq_critical_error(msg) ==
    \/ Contains(msg, "Stacktrace")
    \/ Contains(lower(msg), "chrome not reachable")
    \/ Contains(lower(msg), "session not created")
    \/ Contains(msg, "Message: \n")
    \/ Contains(lower(msg), "chromedriver")
    \/ Contains(lower(msg), "can not connect to the service")
    \/ Contains(lower(msg), "unexpectedly exited")

InitClassify ==
    /\ NotRunning
    /\ \E msg \in Descriptions :
          call = [op |-> "critical_error", msg |-> msg,
                  pool_done |-> FALSE, pool |-> FALSE,
                  seq_done |-> FALSE, seq |-> FALSE]

ClassifyPool ==
    /\ call.op = "critical_error" /\ ~call.pool_done
    /\ call' = [call EXCEPT !.pool_done = TRUE,
                            !.pool = pool_critical_error(call.msg)]
    /\ UNCHANGED programVars

ClassifySeq ==
    /\ call.op = "critical_error" /\ ~call.seq_done
    /\ call' = [call EXCEPT !.seq_done = TRUE,
                            !.seq = seq_critical_error(call.msg)]
    /\ UNCHANGED programVars

NextClassify == ClassifyPool \/ ClassifySeq

SpecClassify == InitClassify /\ [][NextClassify]_vars


\* ------------------------------- main(), interrupted and run with --resume
\* the input directory: MaxGroups CSV files, in the order of find_csv_files
PassFiles == [g \in Groups |-> g]

\* what process_csv_file returns for a group in pass p: a result list with
\* the entries of its URL, a failure record of its URL, or two empty lists
GroupOutcomes(g, p) ==
    {[results |-> <<[url |-> g, pass |-> p]>>, failed_urls |-> <<>>],
     [results |-> <<>>, failed_urls |-> <<[url |-> g, pass |-> p]>>],
     [results |-> <<>>, failed_urls |-> <<>>]}

NoOutput == [exists |-> FALSE, rows |-> <<>>]

\* main() before its first statement, in pass p over the disk left by the
\* passes before it
PassStart(p, disk) ==
    [op |-> "main", pass |-> p, pc |-> "start", resume |-> p > 1,
     csv_files |-> PassFiles, idx |-> 1,
     checkpoint_data |-> EmptyCheckpoint, processed_set |-> {},
     all_failed_urls |-> <<>>, results |-> <<>>, failed_urls |-> <<>>,
     ckptFile |-> disk.ckptFile, output |-> disk.output,
     failedFile |-> disk.failedFile, checkpointed |-> disk.checkpointed]

\* the first run: no --resume, an empty output directory
InitResume ==
    /\ NotRunning
    /\ call = PassStart(1, [ckptFile |-> AbsentFile,
                            output |-> [g \in Groups |-> NoOutput],
                            failedFile |-> NoOutput,
                            checkpointed |-> [g \in Groups |-> 0]])

\* main, lines 93-104: load the checkpoint, filter the groups
PassMainStart ==
    /\ call.op = "main" /\ call.pc = "start"
    /\ IF call.resume /\ ~load_checkpoint(call.ckptFile).ok
       THEN call' = [call EXCEPT !.pc = "crashed"]
       ELSE LET data == InitialCheckpoint(call.resume, call.ckptFile)
                filter == call.resume /\ data.processed_files # <<>>
            IN call' = [call EXCEPT
                  !.checkpoint_data = data,
                  !.processed_set =
                      IF filter THEN Range(data.processed_files) ELSE {},
                  !.csv_files =
                      IF filter
                      THEN FilterFiles(call.csv_files, Range(data.processed_files))
                      ELSE call.csv_files,
                  !.all_failed_urls = data.failed_urls,
                  !.pc = "loop"]
    /\ UNCHANGED programVars

\* main, lines 107-115: process_csv_file on the next group
PassGroup ==
    /\ call.op = "main" /\ call.pc = "loop"
    /\ call.idx <= Len(call.csv_files)
    /\ \E r \in GroupOutcomes(call.csv_files[call.idx], call.pass) :
          call' = [call EXCEPT !.results = r.results,
                               !.failed_urls = r.failed_urls,
                               !.pc = "save"]
    /\ UNCHANGED programVars

\* main, lines 118-131, and df.to_csv opening the output file for writing
PassSaveOpen ==
    /\ call.op = "main" /\ call.pc = "save"
    /\ call' = IF call.results # <<>>
               THEN [call EXCEPT
                       !.output[call.csv_files[call.idx]] =
                           [exists |-> TRUE, rows |-> <<>>],
                       !.pc = "write"]
               ELSE [call EXCEPT !.pc = "ckpt"]
    /\ UNCHANGED programVars

\* save_results_to_csv, lines 263-265: the rows are written to the file
PassSaveWrite ==
    /\ call.op = "main" /\ call.pc = "write"
    /\ call' = [call EXCEPT
                  !.output[call.csv_files[call.idx]] =
                      [exists |-> TRUE, rows |-> call.results],
                  !.pc = "ckpt"]
    /\ UNCHANGED programVars

\* main, lines 134-138, and save_checkpoint's open(checkpoint_file, 'w')
PassCheckpointOpen ==
    /\ call.op = "main" /\ call.pc = "ckpt"
    /\ call' = [call EXCEPT
          !.all_failed_urls = extend(@, call.failed_urls),
          !.checkpoint_data =
              [processed_files |->
                  Append(@.processed_files, call.csv_files[call.idx]),
               failed_urls |-> extend(call.all_failed_urls, call.failed_urls)],
          !.ckptFile = TruncatedFile,
          !.pc = "dump"]
    /\ UNCHANGED programVars

\* save_checkpoint, line 87: json.dump writes the document, the file closes
PassCheckpointDump ==
    /\ call.op = "main" /\ call.pc = "dump"
    /\ call' = [call EXCEPT
          !.ckptFile = CompleteFile(call.checkpoint_data),
          !.checkpointed[call.csv_files[call.idx]] = call.pass,
          !.idx = @ + 1,
          !.pc = "loop"]
    /\ UNCHANGED programVars

\* main, lines 141-149, with save_failed_urls
PassFinish ==
    /\ call.op = "main" /\ call.pc = "loop"
    /\ call.idx > Len(call.csv_files)
    /\ call' = [call EXCEPT
          !.failedFile = IF call.all_failed_urls # <<>>
                         THEN [exists |-> TRUE, rows |-> call.all_failed_urls]
                         ELSE @,
          !.pc = "done"]
    /\ UNCHANGED programVars

\* the process is stopped where it is and the program is run again with
\* --resume: the files stay as they are, the memory is lost
Interrupt ==
    /\ call.op = "main" /\ call.pc \notin {"done", "crashed"}
    /\ call.pass < MaxPasses
    /\ call' = PassStart(call.pass + 1, call)
    /\ UNCHANGED programVars

NextResume ==
    \/ PassMainStart
    \/ PassGroup
    \/ PassSaveOpen
    \/ PassSaveWrite
    \/ PassCheckpointOpen
    \/ PassCheckpointDump
    \/ PassFinish
    \/ Interrupt

SpecResume == InitResume /\ [][NextResume]_vars


\* ------------------- the sequential loop on one URL, statement by statement
\* process_csv_file, lines 176-180: the loop on the URL starts; sessions
\* counts the browsers that run, creates the calls of create_driver, created
\* the ones that returned a session, quits the calls of driver.quit()
InitSeq ==
    /\ NotRunning
    /\ call = [op |-> "scrape_match_and_odds", pc |-> "create",
               seq |-> RetryStart, driver |-> None, sessions |-> 0,
               creates |-> 0, created |-> 0, quits |-> 0,
               out |-> Failed(NoError), res |-> Failed(NoError)]

\* scraper.scrape_match_and_odds, line 485: driver = create_driver(headless);
\* its exception leaves the function before the try
SeqCreate ==
    /\ call.op = "scrape_match_and_odds" /\ call.pc = "create"
    /\ \E launches \in {LaunchesOk, NoService} :
          IF create_driver(launches).ok
          THEN call' = [call EXCEPT !.driver = "Live", !.sessions = @ + 1,
                                    !.creates = @ + 1, !.created = @ + 1,
                                    !.pc = "try"]
          ELSE call' = [call EXCEPT !.creates = @ + 1,
                                    !.res = Failed(NotCreatedMsg),
                                    !.pc = "except"]
    /\ UNCHANGED programVars

\* lines 486-487: return scrape_match_and_odds_with_driver(driver, ...)
SeqProtocol ==
    /\ call.op = "scrape_match_and_odds" /\ call.pc = "try"
    /\ \E out \in ProtocolOutcomes :
          call' = [call EXCEPT !.out = out, !.pc = "finally"]
    /\ UNCHANGED programVars

\* lines 488-489: finally: driver.quit(); its exception replaces what the
\* try returned or raised
SeqQuit ==
    /\ call.op = "scrape_match_and_odds" /\ call.pc = "finally"
    /\ \E quit_raises \in BOOLEAN :
          LET quit == try_quit_unguarded(call.driver, quit_raises) IN
          call' = [call EXCEPT
                     !.sessions = IF quit.session = "Live" THEN @ ELSE @ - 1,
                     !.quits = @ + 1,
                     !.driver = None,
                     !.res = IF quit.raised THEN Failed(QuitFailedMsg)
                             ELSE call.out,
                     !.pc = "except"]
    /\ UNCHANGED programVars

\* process_csv_file, lines 186-223: the call has returned or raised
SeqDecide ==
    /\ call.op = "scrape_match_and_odds" /\ call.pc = "except"
    /\ LET st == seq_iteration(call.seq, <<1, 1>>, call.res) IN
       call' = [call EXCEPT !.seq = st,
                            !.pc = IF Looping(st) THEN "create" ELSE "done"]
    /\ UNCHANGED programVars

NextSeq == SeqCreate \/ SeqProtocol \/ SeqQuit \/ SeqDecide

SpecSeq == InitSeq /\ [][NextSeq]_vars


\* ===================================================================== claims
CountIn(records, u) == Cardinality({i \in 1..Len(records) : records[i].url = u})
InList(records, u) == \E i \in 1..Len(records) : records[i].url = u

GroupReturned == mpc \in {"save", "ckpt", "dump"}
InGroup == mpc \in {"seq", "pool", "save", "ckpt", "dump"}
GroupUrls == Range(UrlsOf(CurGroup))

\* C1: once process_csv_file has returned for a group whose file was read,
\* every URL of the group is in the returned result list or has a record in
\* the returned failure list.
C1_EveryTargetAccounted ==
    (GroupReturned /\ CurGroup \notin group_error) =>
        \A u \in GroupUrls : InList(all_results, u) \/ InList(failed_urls, u)

\* C2: no URL is both in a result list and in the failure list, and no URL
\* has two failure records (or two result blocks), in the merged lists of
\* process_csv_file and in the lists of every pooled worker.
C2_SuccessXorFailureOnce ==
    \A u \in AllUrls :
        /\ ~(InList(all_results, u) /\ InList(failed_urls, u))
        /\ CountIn(failed_urls, u) <= 1
        /\ CountIn(all_results, u) <= 1
        /\ \A w \in Workers :
              /\ ~(InList(results[w], u) /\ InList(wfailed[w], u))
              /\ CountIn(wfailed[w], u) <= 1
              /\ CountIn(results[w], u) <= 1

\* a pooled group has returned with one URL in the results and another in
\* the failure list
C2_Witness ==
    /\ mpc = "save" /\ args.workers > 1
    /\ \E u, v \in GroupUrls : InList(all_results, u) /\ InList(failed_urls, v)

\* a step of the retry loop of pooled worker w
AttemptStep(w) ==
    /\ wpc[w] = "attempt"
    /\ <<results[w], wfailed[w], retry_count[w]>>'
          # <<results[w], wfailed[w], retry_count[w]>>

\* records is one record longer, a retries-exhausted record of u
ExhaustedAdded(records, u) ==
    /\ Len(records') = Len(records) + 1
    /\ SubSeq(records', 1, Len(records)) = records
    /\ records'[Len(records')].url = u
    /\ records'[Len(records')].error # RestartFailedMsg

\* C3: a URL whose attempts all fail (no replacement session failing) gets
\* exactly 3 attempts and exactly one failure record, with attempts = 3: a
\* retries-exhausted record is written only by the 3rd attempt of its URL,
\* says 3, and is the URL's only record; and a 3rd attempt that fails leaves
\* the retry loop with that record written; in the pool and in the
\* sequential loop.
C3_ThreeAttemptsOneRecord ==
    [][/\ \A w \in Workers :
            /\ (AttemptStep(w) /\ ExhaustedAdded(wfailed[w], CurUrl(w)))
                  => /\ attempts_log[w] = 2
                     /\ wfailed'[w][Len(wfailed'[w])].attempts = 3
                     /\ ~InList(wfailed[w], CurUrl(w))
            /\ (AttemptStep(w) /\ attempts_log[w] = 2 /\ results'[w] = results[w])
                  => /\ ExhaustedAdded(wfailed[w], CurUrl(w))
                     /\ attempts_log'[w] = 0
            /\ (AttemptStep(w) /\ attempts_log[w] < 2)
                  => wfailed'[w] = wfailed[w]
       /\ mpc = "seq" =>
            LET u == UrlsOf(CurGroup)[seq_idx] IN
            /\ ExhaustedAdded(failed_urls, u)
                  => /\ attempts_log[SeqLoop] = 2
                     /\ failed_urls'[Len(failed_urls')].attempts = 3
                     /\ ~InList(failed_urls, u)
            /\ (attempts_log[SeqLoop] = 2 /\ all_results' = all_results)
                  => /\ ExhaustedAdded(failed_urls, u)
                     /\ attempts_log'[SeqLoop] = 0
            /\ attempts_log[SeqLoop] < 2 => failed_urls' = failed_urls
      ]_vars

\* a pooled worker has recorded a URL after three attempts that failed with
\* a non-critical error
C3_Witness ==
    \E w \in Workers : \E i \in 1..Len(wfailed[w]) :
        /\ wfailed[w][i].attempts = 3
        /\ wfailed[w][i].error = TimeoutMsg

\* C4: a pooled worker about to make the 3rd attempt on a URL has, since the
\* 2nd failure, destroyed its session exactly once and created exactly one
\* new session, whatever the class of the error.
C4_ForcedRestartOnce ==
    \A w \in Workers :
        (wpc[w] = "attempt" /\ retry_count[w] = 2) =>
            restart_log[w] = [destroyed |-> 1, created |-> 1]

\* the 3rd attempt is about to start after a 2nd failure that was not
\* critical
C4_Witness ==
    \E w \in Workers :
        /\ wpc[w] = "attempt" /\ retry_count[w] = 2
        /\ ~critical_error(error_msg[w])
        /\ restart_log[w] = [destroyed |-> 1, created |-> 1]

\* C5: a live session of a worker stops being live only in a step of that
\* worker (its own destroy) or in a step of no worker (the session's own
\* crash): never in a step of another worker.
C5_NoCrossWorkerKill ==
    [][\A w \in Workers :
          (driver[w] = "Live" /\ driver'[w] # "Live")
              => \A v \in Workers \ {w} : wpc'[v] = wpc[v]]_vars


\* C6: while the checkpoint that adds a group (whose file was read) is being
\* saved, every worker of the group has been joined, every URL of the group
\* is in the result list or recorded as failed, and a non-empty result list
\* is already in the group's output artifact.
C6_CheckpointAfterTerminalAndWrite ==
    (mpc = "dump" /\ CurGroup \notin group_error) =>
        /\ \A w \in Workers : wpc[w] \in {"idle", "collected"}
        /\ \A u \in GroupUrls : InList(all_results, u) \/ InList(failed_urls, u)
        /\ NumEntries(all_results) > 0 =>
              output[CurGroup] = [exists |-> TRUE, rows |-> all_results]

\* C7: a group whose processing failed at group level is not in the
\* completed set of a checkpoint this run has saved.
C7_FailedGroupNotCheckpointed ==
    \A g \in group_error :
        ~(/\ ckptFile = CompleteFile(checkpoint_data)
          /\ g \in Range(checkpoint_data.processed_files))

\* C8: in a run started with --resume, process_csv_file is never entered for
\* a group of the loaded checkpoint's completed set.
C8_ResumeSkipsCompleted ==
    (args.resume /\ InGroup) => CurGroup \notin processed_set

\* a resumed run that loaded a non-empty checkpoint has processed a group
C8_Witness ==
    args.resume /\ processed_set # {} /\ mpc = "save"

\* C9: in a resumed run every checkpoint written to disk extends the last
\* complete checkpoint that was on disk (the one loaded, then each one
\* saved): its completed groups and its failure records are a prefix of
\* the new ones.
C9_CheckpointOnlyGrows ==
    [][(args.resume /\ ckptFile' # ckptFile /\ ckptFile'.state = "complete")
          => /\ IsPrefix(last_ckpt.processed_files,
                         ckptFile'.data.processed_files)
             /\ IsPrefix(last_ckpt.failed_urls, ckptFile'.data.failed_urls)]_vars

\* a resumed run that loaded a completed group and a failure record has
\* saved a checkpoint with one more group and one more failure record
C9_Witness ==
    /\ args.resume /\ processed_set # {}
    /\ ckptFile = CompleteFile(checkpoint_data)
    /\ Len(ckptFile.data.processed_files) = 2
    /\ Len(ckptFile.data.failed_urls) = 2
    /\ ckptFile.data.failed_urls[1] = PriorFailure

\* C10: whenever the checkpoint file exists, reading it (load_checkpoint of
\* a resumed run, parse_checkpoint of the dashboard) yields a complete
\* checkpoint document.
C10_ReaderSeesCompleteCheckpoint ==
    ckptFile.state # "absent" =>
        load_checkpoint(ckptFile).ok /\ ~parse_checkpoint(ckptFile).empty

\* the URL before the current one in the batch of worker w was left with a
\* "Browser restart failed" record, the last record of the worker
PreviousAbandoned(w) ==
    /\ widx[w] > 1
    /\ wfailed[w] # <<>>
    /\ wfailed[w][Len(wfailed[w])].url = url_batches[w][widx[w] - 1]
    /\ wfailed[w][Len(wfailed[w])].error = RestartFailedMsg

\* C11: a pooled worker that starts the first attempt on the URL after an
\* abandoned one (both creation tries of the restart failed) holds a session
\* created since, so that the attempt reaches the protocol and is not spent
\* on the missing session.
C11_NextTargetOnFreshSession ==
    \A w \in Workers :
        (wpc[w] = "attempt" /\ retry_count[w] = 0 /\ PreviousAbandoned(w))
            => driver[w] # None

RECURSIVE Flatten(_)
Flatten(lists) ==
    IF lists = <<>> THEN <<>> ELSE Head(lists) \o Flatten(Tail(lists))

\* the sub-lists process_csv_file submits: the non-empty ones (line 233)
Scheduled(batches) == SelectSeq(batches, LAMBDA b : b # <<>>)

BatchesDone == call.op = "Batches" /\ call.done

\* C12: for n >= 1 URLs and W >= 2 workers, the submitted sub-lists
\* concatenated in worker order are the URL list itself.
C12_BatchesConcatenate ==
    BatchesDone => Flatten(Scheduled(call.url_batches)) = call.urls

\* a list split into three sub-lists, the last one shorter
C12_Witness ==
    /\ BatchesDone
    /\ Len(call.url_batches) = 3
    /\ Len(call.url_batches[3]) < Len(call.url_batches[1])

CeilDiv(n, W) == (n + W - 1) \div W

\* C13 as stated: at most W sub-lists, none empty, and the sizes of any two
\* differ by at most 1.
C13_SizesDifferByOne ==
    BatchesDone =>
        LET b == Scheduled(call.url_batches) IN
        /\ Len(b) <= call.num_workers
        /\ \A j \in DOMAIN b : b[j] # <<>>
        /\ \A j, k \in DOMAIN b : Len(b[j]) - Len(b[k]) <= 1

\* C13 amended: at most W sub-lists, none empty; every sub-list but the last
\* has ceil(n/W) URLs and the last has between 1 and ceil(n/W).
C13_CeilSizedChunks ==
    BatchesDone =>
        LET b == Scheduled(call.url_batches)
            size == CeilDiv(Len(call.urls), call.num_workers)
        IN /\ Len(b) <= call.num_workers
           /\ Len(b) >= 1
           /\ \A j \in DOMAIN b : b[j] # <<>>
           /\ \A j \in 1..(Len(b) - 1) : Len(b[j]) = size
           /\ Len(b[Len(b)]) <= size

\* 7 URLs for 3 workers: sub-lists of 3, 3 and 1
C13_Witness ==
    /\ BatchesDone
    /\ Len(call.urls) = 7 /\ call.num_workers = 3
    /\ Len(call.url_batches) = 3
    /\ Len(call.url_batches[3]) = 1

RetryDone == call.op = "retry" /\ ~Looping(call.seq) /\ ~Looping(call.pool)

\* what a failure record says apart from its origin (csv_file or worker_id)
RecordCore(rec) == [url |-> rec.url, error |-> rec.error, attempts |-> rec.attempts]

\* C14: given the same outcome for each attempt on a URL, the sequential
\* loop and the loop of a pooled worker make the same number of attempts (at
\* most 3), sleep the same waits before the retries, and end the same way:
\* the same result, or one failure record each, with attempts = 3 and the
\* same error.
C14_SameRetrySemantics ==
    RetryDone =>
        /\ call.seq.attempts = call.pool.attempts
        /\ call.seq.attempts <= 3
        /\ call.seq.sleeps = call.pool.sleeps
        /\ call.seq.success = call.pool.success
        /\ call.seq.results = call.pool.results
        /\ Len(call.seq.failed_urls) = Len(call.pool.failed_urls)
        /\ ~call.seq.success =>
              /\ Len(call.seq.failed_urls) = 1
              /\ call.seq.failed_urls[1].attempts = 3
              /\ RecordCore(call.seq.failed_urls[1])
                    = RecordCore(call.pool.failed_urls[1])

\* both loops have succeeded at the third attempt after waits of 2 and 4
C14_Witness ==
    /\ RetryDone
    /\ call.seq.success /\ call.pool.success
    /\ call.seq.attempts = 3 /\ call.pool.attempts = 3
    /\ call.pool.sleeps = <<2, 4>>
    /\ call.pool.restarts > 0

ForceQuit == call.op = "force_quit_driver"

\* C15: force_quit_driver returns normally whatever the driver is (None, a
\* live session, a session already gone) and whichever of its steps fail;
\* after it a session is gone, and a second call on the same driver returns
\* normally too and leaves it gone; is_driver_alive never raises and is
\* False for a session that is gone and for None.
C15_DestroyNeverRaises ==
    ForceQuit =>
        /\ call.pc # "raised"
        /\ (call.calls >= 1 /\ call.pc = "idle")
              => call.session = (IF call.driver = None THEN None ELSE "Dead")
        /\ call.probe.made =>
              /\ ~call.probe.raised
              /\ call.session # "Live" => ~call.probe.value

\* the second call has returned on a live session whose quit() raised in
\* both calls, and the probe has answered False
C15_Witness ==
    /\ ForceQuit
    /\ call.driver = "Live" /\ call.calls = 2 /\ call.pc = "idle"
    /\ Len(SelectSeq(call.passed, LAMBDA x : x = "quit")) = 2
    /\ call.probe.made /\ ~call.probe.value

CreateDone == call.op = "create_driver" /\ call.done

\* C16 as stated: at most 3 launches with a pause of 2 seconds between
\* them, the first launch that succeeds is the last one made, and
\* create_driver raises only when 3 launches have been made and failed.
C16_RaisesOnlyAfterThreeLaunches ==
    CreateDone =>
        /\ call.ret.launched <= 3
        /\ call.ret.slept = [i \in 1..(call.ret.launched - 1) |-> 2]
        /\ call.ret.ok =>
              /\ call.launches.launch[call.ret.launched]
              /\ \A a \in 1..(call.ret.launched - 1) : ~call.launches.launch[a]
        /\ ~call.ret.ok =>
              /\ call.ret.launched = 3
              /\ \A a \in 1..3 : ~call.launches.launch[a]

\* C16 amended: at most 3 launches with a pause of 2 seconds between them,
\* the first launch that succeeds is the last one made, and create_driver
\* raises only when 3 launches have been made and failed, or, before any
\* launch, when no chromedriver is found or installed.
C16_RaisesAfterThreeLaunchesOrNoService ==
    CreateDone =>
        /\ call.ret.launched <= 3
        /\ call.ret.slept = [i \in 1..(call.ret.launched - 1) |-> 2]
        /\ call.ret.ok =>
              /\ call.launches.service
              /\ call.launches.launch[call.ret.launched]
              /\ \A a \in 1..(call.ret.launched - 1) : ~call.launches.launch[a]
        /\ ~call.ret.ok =>
              \/ ~call.launches.service /\ call.ret.launched = 0
              \/ /\ call.launches.service
                 /\ call.ret.launched = 3
                 /\ \A a \in 1..3 : ~call.launches.launch[a]

\* the second launch has succeeded and the third, which would have succeeded
\* too, was not made
C16_Witness ==
    /\ CreateDone
    /\ call.ret.ok /\ call.ret.launched = 2 /\ call.ret.slept = <<2>>
    /\ call.launches.launch[3]

\* the step is an attempt of worker w that got past the probe: it has the
\* outcome of a protocol call
ProtocolStep(w) ==
    /\ AttemptStep(w)
    /\ \/ results'[w] # results[w]
       \/ error_msg'[w] \in ProtoErrors /\ retry_count'[w] # retry_count[w]
       \/ ExhaustedAdded(wfailed[w], CurUrl(w))
            /\ wfailed'[w][Len(wfailed'[w])].error \in ProtoErrors

\* C17: in a pooled worker a session that is gone (destroyed or dead) never
\* becomes live again; a worker gets a live session only from a create of
\* its own, made while it holds none; and every protocol call is made on a
\* live session.
C17_NoUseAfterDestroy ==
    [][\A w \in Workers :
          /\ driver[w] = "Dead" => driver'[w] # "Live"
          /\ (driver[w] # "Live" /\ driver'[w] = "Live")
                => /\ driver[w] = None
                   /\ wpc[w] \in {"create", "recreate", "recover"}
                   /\ wpc'[w] = "attempt"
          /\ ProtocolStep(w) => driver[w] = "Live"
      ]_vars

\* a worker is about to attempt on the session its restart created
C17_Witness ==
    \E w \in Workers :
        /\ wpc[w] = "attempt" /\ driver[w] = "Live"
        /\ restart_log[w] = [destroyed |-> 1, created |-> 1]

\* C18: a pooled worker never has more than one session open, and when
\* process_url_batch is left (by return or by the exception of the first
\* create) no session the worker created is still open.
C18_OneSessionAllDestroyed ==
    \A w \in Workers :
        /\ sessions_open[w] <= 1
        /\ wpc[w] \in {"returned", "raised", "collected"} => sessions_open[w] = 0

\* a worker has returned after a URL abandoned for a failed restart and a
\* later URL scraped on a new session
C18_Witness ==
    \E w \in Workers :
        /\ wpc[w] = "returned"
        /\ \E i \in 1..Len(wfailed[w]) : wfailed[w][i].error = RestartFailedMsg
        /\ results[w] # <<>>
        /\ sessions_open[w] = 0

Scraping == call.op = "scrape"

\* C19: on a live session whose navigation succeeds the protocol does not
\* raise, whatever happens to the consent button, the team names and the
\* kickoff time; a name or a time that could not be read is 'N/A'.
C19_OnlyNavigationAborts ==
    (Scraping /\ call.env.alive /\ call.env.get) =>
        /\ call.pc # "aborted"
        /\ call.pc \in {"handicaps", "returned"} =>
              /\ call.env.home = "none" => call.match_info.home_team = Sentinel
              /\ call.env.away = "none" => call.match_info.away_team = Sentinel
              /\ call.env.time # "parsed"
                    => call.match_info.match_date_utc = Sentinel

RECURSIVE ExpectedOdds(_, _, _)
\* the entries of the first k descriptors, in the order of the list
ExpectedOdds(k, reads, match_info) ==
    IF k = 0 THEN <<>>
    ELSE ExpectedOdds(k - 1, reads, match_info)
            \o Entries(Handicaps[k], reads[k].read, match_info)

\* C20: in the loop over the descriptors the protocol does not raise,
\* whatever fails in a descriptor; the descriptors are processed in the order
\* of the list, all of them by the time the function returns; and the
\* result holds, in that order, every entry read before a failure.
C20_DescriptorFailureSwallowed ==
    Scraping =>
        /\ call.pc # "raised"
        /\ call.visited = SubSeq(Handicaps, 1, Len(call.visited))
        /\ call.pc = "returned" => call.visited = Handicaps
        /\ call.all_odds_data
              = ExpectedOdds(Len(call.visited), call.reads, call.match_info)

\* the function has returned the entries of the first descriptor, read
\* before a bookmaker row raised, and of the third, the row of the second
\* not being on the page
C20_Witness ==
    /\ Scraping /\ call.pc = "returned"
    /\ call.reads[1] = [kind |-> "row_raises", read |-> MaxEntries]
    /\ call.reads[2] = [kind |-> "absent", read |-> 0]
    /\ call.reads[3].read = MaxEntries
    /\ Len(call.all_odds_data) = 2 * MaxEntries
    /\ call.all_odds_data[1].odd_type = Handicaps[1]
    /\ call.all_odds_data[2 * MaxEntries].odd_type = Handicaps[3]

RowDone == call.op = "bookmaker_row" /\ call.done

\* the value a row shows for a side
SideValue(row, side) ==
    IF side = "Over" THEN over_odds(row.odds_elements)
    ELSE under_odds(row.odds_elements)

\* the row has an element for the side
SidePresent(row, side) ==
    Len(row.odds_elements) >= (IF side = "Over" THEN 1 ELSE 2)

\* C21: a bookmaker row gives at most two entries, Over before Under; an
\* entry of a side carries that side's value, and is there only if the row
\* has an element for the side whose text is neither '-' nor 'N/A' (and,
\* the bookmaker name being found, whenever it is so).
C21_EntriesOnlyForRealValues ==
    RowDone =>
        LET e == call.odds_data
            sides == [j \in 1..Len(e) |-> e[j].odd_type[1]]
        IN /\ Len(e) <= 2
           /\ sides \in {<<>>, <<"Over">>, <<"Under">>, <<"Over", "Under">>}
           /\ \A j \in 1..Len(e) :
                 /\ e[j].odd_type[2] = call.handicap
                 /\ SidePresent(call.row, sides[j])
                 /\ e[j].odds = SideValue(call.row, sides[j])
                 /\ e[j].odds \notin {"-", Sentinel}
           /\ call.row.bookmaker =>
                 \A side \in {"Over", "Under"} :
                    (SidePresent(call.row, side)
                        /\ SideValue(call.row, side) \notin {"-", Sentinel})
                       => \E j \in 1..Len(e) : sides[j] = side

\* a row whose Over value is the dash and whose Under value is a number has
\* given the Under entry alone
C21_Witness ==
    /\ RowDone /\ call.row.bookmaker
    /\ call.row.odds_elements = <<"-", "2.05">>
    /\ call.odds_data = <<OddsEntry("Under", call.handicap, "2.05")>>

Attempting == call.op = "attempts"

\* C22: in either retry loop the result list is empty as long as no attempt
\* on the URL has succeeded, whatever the failed attempts had extracted
\* (the entries a sequential call had returned before its quit() raised are
\* dropped); after the attempt that succeeds it holds the entries that
\* attempt returned, once, and the URL has no failure record; a URL with a
\* failure record has no entry in the result list.
C22_FailedAttemptsContributeNothing ==
    Attempting =>
        /\ ~call.seq.success => call.seq.results = <<>>
        /\ ~call.pool.success => call.pool.results = <<>>
        /\ call.seq.success =>
              /\ SeqCall(call.envs[call.seq.attempts]).ok
              /\ call.seq.results =
                    <<[url |-> <<1, 1>>,
                       n |-> call.envs[call.seq.attempts].out.n]>>
              /\ call.seq.failed_urls = <<>>
        /\ call.pool.success =>
              /\ call.envs[call.pool.attempts].out.ok
              /\ call.pool.results =
                    <<[url |-> <<1, 1>>,
                       n |-> call.envs[call.pool.attempts].out.n]>>
              /\ call.pool.failed_urls = <<>>
        /\ call.seq.failed_urls # <<>> => call.seq.results = <<>>
        /\ call.pool.failed_urls # <<>> => call.pool.results = <<>>

\* the sequential loop has succeeded at the 3rd attempt with an empty list,
\* after a 1st attempt that had extracted entries when its quit() raised
C22_Witness ==
    /\ Attempting
    /\ call.envs[1].created /\ call.envs[1].out.ok /\ ~call.envs[1].quit_ok
    /\ call.envs[1].out.n = MaxEntries
    /\ call.seq.success /\ call.seq.attempts = 3
    /\ call.seq.results = <<[url |-> <<1, 1>>, n |-> 0]>>

\* C23: whenever main is between two groups, or past the last one, with at
\* least one group completed, failed_urls.json on disk holds every failure
\* record accumulated so far in the run.
C23_LedgerRewrittenAfterEachGroup ==
    (mpc \in {"loop", "done"} /\ idx > 1) =>
        \A i \in 1..Len(all_failed_urls) :
            /\ failedFile.exists
            /\ \E j \in 1..Len(failedFile.rows) :
                  failedFile.rows[j] = all_failed_urls[i]

\* the position of URL u in a batch of distinct URLs
Pos(batch, u) == CHOOSE i \in 1..Len(batch) : batch[i] = u

\* the records are of URLs of the batch, none past position upto, in the
\* order of the batch
InBatchOrder(records, batch, upto) ==
    /\ \A i \in 1..Len(records) :
          /\ records[i].url \in Range(batch)
          /\ Pos(batch, records[i].url) <= upto
    /\ \A i, j \in 1..Len(records) :
          i < j => Pos(batch, records[i].url) < Pos(batch, records[j].url)

\* C24: a pooled worker moves through its batch one URL at a time, never
\* back, and leaves a URL only when it is in its result list or its failure
\* list, starting the next one with retry_count 0; its lists hold the URLs
\* in batch order, none past the current one; and process_csv_file extends
\* the merged lists only with the lists, unchanged, of a worker that has
\* returned.
C24_WorkerOrderPreserved ==
    [][/\ \A w \in Workers :
            /\ InBatchOrder(results[w], url_batches[w], widx[w])
            /\ InBatchOrder(wfailed[w], url_batches[w], widx[w])
            /\ widx'[w] # widx[w] =>
                  \/ widx'[w] = 0
                  \/ /\ widx'[w] = widx[w] + 1
                     /\ retry_count'[w] = 0
                     /\ widx[w] >= 1 =>
                           \/ InList(results'[w], CurUrl(w))
                           \/ InList(wfailed'[w], CurUrl(w))
       /\ (mpc = "pool" /\ <<all_results, failed_urls>>' # <<all_results, failed_urls>>)
             => \E w \in Workers :
                   /\ wpc[w] = "returned" /\ wpc'[w] = "collected"
                   /\ all_results' = all_results \o results[w]
                   /\ failed_urls' = failed_urls \o wfailed[w]
      ]_vars

\* the second worker was merged first, then the first worker with its two
\* URLs in batch order
C24_Witness ==
    /\ mpc = "save" /\ args.workers = 2
    /\ Len(all_results) = 3
    /\ all_results[1].url = <<1, 3>>
    /\ all_results[2].url = <<1, 1>>
    /\ all_results[3].url = <<1, 2>>

ParseDone == call.op = "parse_url_for_info" /\ call.done

\* the league segment of a URL .../football/<country>/<segment>/...
LeagueSegment(url) == after_football(clean_parts(url))

\* what C25 says of a league segment, if it says anything: <slug>-YYYY-YYYY
\* gives (humanized slug, YYYY-YYYY), <slug>-YYYY gives (humanized slug,
\* YYYY-(YYYY+1))
C25_Expected(slug) ==
    LET n == Len(slug) IN
    IF n >= 3 /\ slug[n].kind = "year" /\ slug[n - 1].kind = "year"
    THEN [says |-> TRUE, league_name |-> humanize(SubSeq(slug, 1, n - 2)),
          season_info |-> SubSeq(slug, n - 1, n)]
    ELSE IF n >= 2 /\ slug[n].kind = "year"
    THEN [says |-> TRUE, league_name |-> humanize(SubSeq(slug, 1, n - 1)),
          season_info |-> <<slug[n], Year(slug[n].year + 1)>>]
    ELSE [says |-> FALSE, league_name |-> <<>>, season_info |-> <<>>]

\* C25: parse_url_for_info of the module maps a URL whose league segment is
\* <slug>-YYYY to (humanized slug, YYYY-(YYYY+1)) and one whose segment is
\* <slug>-YYYY-YYYY to (humanized slug, YYYY-YYYY).
C25_SeasonFromLeagueSegment ==
    (ParseDone /\ C25_Expected(LeagueSegment(call.url)).says) =>
        /\ call.ret.league_name = C25_Expected(LeagueSegment(call.url)).league_name
        /\ call.ret.season_info = C25_Expected(LeagueSegment(call.url)).season_info

\* the copy of the function in src/getodd.py does what C25 says
C25_GetoddCopy ==
    (call.op = "parse_url_for_info" /\ call.getodd_done
        /\ C25_Expected(LeagueSegment(call.url)).says) =>
        /\ call.getodd_ret.league_name
              = C25_Expected(LeagueSegment(call.url)).league_name
        /\ call.getodd_ret.season_info
              = C25_Expected(LeagueSegment(call.url)).season_info

\* the segment parse_url_for_info takes for the league segment
TakenSegment(url) == league_season_slug(clean_parts(url))

\* the segment ends in -YYYY (and so also when it ends in -YYYY-YYYY)
EndsInYear(slug) == Len(slug) >= 2 /\ slug[Len(slug)].kind = "year"

\* the segment is made of letters, digits and hyphens
PlainSegment(slug) == \A i \in 1..Len(slug) : slug[i].kind \in {"word", "year"}

\* C26 as stated: parse_url_for_info does not raise, and for a URL whose
\* league segment does not end in -YYYY or -YYYY-YYYY it returns
\* ('N/A', 'N/A').
C26_SentinelPairOnMismatch ==
    ParseDone =>
        /\ ~call.ret.raised
        /\ ~EndsInYear(TakenSegment(call.url).slug) =>
              call.ret.league_name = NA /\ call.ret.season_info = NA

\* C26 amended: parse_url_for_info does not raise; it returns ('N/A', 'N/A')
\* for a URL of fewer than two parts that has no segment two after
\* 'football'; for any other URL whose league segment is made of letters,
\* digits and hyphens and does not end in -YYYY or -YYYY-YYYY it returns the
\* humanized segment as the league name and 'N/A' as the season.
C26_HumanizedSegmentOnMismatch ==
    ParseDone =>
        /\ ~call.ret.raised
        /\ ~TakenSegment(call.url).found =>
              call.ret.league_name = NA /\ call.ret.season_info = NA
        /\ (/\ TakenSegment(call.url).found
            /\ PlainSegment(TakenSegment(call.url).slug)
            /\ ~EndsInYear(TakenSegment(call.url).slug)) =>
              /\ call.ret.league_name = humanize(TakenSegment(call.url).slug)
              /\ call.ret.season_info = NA

\* a URL https://x/football/country/premier-league/match/ has given
\* ('Premier League', 'N/A')
C26_Witness ==
    /\ ParseDone
    /\ LeagueSegment(call.url) = <<Word("premier"), Word("league")>>
    /\ call.ret.league_name = <<Word("Premier"), Word("League")>>
    /\ call.ret.season_info = NA

\* C27: load_checkpoint of a missing file returns the empty checkpoint and
\* does not raise; a run started with --resume and no checkpoint file loads
\* it, keeps every group in its list with no failure carried over, and has
\* processed every group, in order, when it ends.
C27_MissingCheckpointIsEmptyState ==
    [][/\ (mpc = "start" /\ args.resume /\ ckptFile = AbsentFile) =>
            /\ load_checkpoint(ckptFile) = [ok |-> TRUE, data |-> EmptyCheckpoint]
            /\ mpc' = "loop"
            /\ checkpoint_data' = EmptyCheckpoint
            /\ all_failed_urls' = <<>>
            /\ csv_files' = find_csv_files
       /\ (mpc' = "done" /\ args.resume /\ processed_set = {}) =>
            checkpoint_data'.processed_files = find_csv_files
      ]_vars

\* a run resumed without a checkpoint file has ended with both groups in
\* its checkpoint
C27_Witness ==
    /\ args.resume /\ processed_set = {} /\ mpc = "done"
    /\ checkpoint_data.processed_files = <<1, 2>>
    /\ ckptFile = CompleteFile(checkpoint_data)

\* C28: a pooled worker is in its restart (destroy, create, second create)
\* only after a failed attempt that left retries and whose error is critical
\* or which was the 2nd failure; when it starts the next attempt after such
\* a failure it has created exactly one session since, and destroyed the one
\* it held (it held none only on the first attempt after an abandoned URL);
\* after a 1st failure with a non-critical error it starts the next attempt
\* with nothing destroyed and nothing created.
C28_RestartIffFatalOrSecond ==
    \A w \in Workers :
        /\ wpc[w] \in {"quit", "recreate", "recover"} =>
              /\ RetriesLeft(retry_count[w])
              /\ critical_error(error_msg[w]) \/ retry_count[w] = 2
        /\ (wpc[w] = "attempt" /\ retry_count[w] >= 1) =>
              IF critical_error(error_msg[w]) \/ retry_count[w] = 2
              THEN /\ restart_log[w].created = 1
                   /\ restart_log[w].destroyed =
                         IF retry_count[w] = 1 /\ PreviousAbandoned(w)
                         THEN 0 ELSE 1
              ELSE restart_log[w] = NoRestart /\ driver[w] # None

\* one worker retries on the session it had after a 1st failure by timeout,
\* another retries on a replaced session after a 1st failure with the
\* browser unreachable
C28_Witness ==
    \E w, v \in Workers :
        /\ wpc[w] = "attempt" /\ retry_count[w] = 1
        /\ error_msg[w] = TimeoutMsg /\ restart_log[w] = NoRestart
        /\ driver[w] = "Live"
        /\ wpc[v] = "attempt" /\ retry_count[v] = 1
        /\ error_msg[v] = UnreachableMsg
        /\ restart_log[v] = [destroyed |-> 1, created |-> 1]

\* the failed attempts among the first i events
FailsUpTo(events, i) == Cardinality({j \in 1..i : events[j].e = "fail"})

\* C29 for one event log: the event after the k-th failed attempt is a sleep
\* of 2^k seconds for k = 1, 2 and the failure record for k = 3, after which
\* nothing follows; a destroy comes only right after that sleep and a create
\* only after the destroy (and its pause of 2 seconds); an attempt other
\* than the first comes only right after that sleep or after the create.
BackoffFirst(events) ==
    \A i \in 1..Len(events) :
        /\ events[i].e = "fail" =>
              /\ i < Len(events)
              /\ IF FailsUpTo(events, i) < 3
                 THEN events[i + 1] = Event("sleep", 2 ^ FailsUpTo(events, i))
                 ELSE events[i + 1] = Event("record", 0) /\ i + 1 = Len(events)
        /\ events[i].e = "destroy" =>
              /\ events[i - 1].e = "sleep" /\ events[i - 2].e = "fail"
              /\ i + 2 <= Len(events)
              /\ events[i + 1] = Event("sleep", restart_pause)
              /\ events[i + 2].e = "create"
        /\ events[i].e = "create" => events[i - 2].e = "destroy"
        /\ (events[i].e \in {"ok", "fail"} /\ i > 1) =>
              \/ events[i - 1].e = "create"
              \/ events[i - 1].e = "sleep" /\ events[i - 2].e = "fail"

\* C29: in the sequential loop and in the loop of a pooled worker, after the
\* k-th failed attempt on a URL (k = 1, 2) the loop sleeps 2^k seconds
\* before anything else, and only then replaces the session (pool) and makes
\* the next attempt; after the 3rd failed attempt it neither sleeps nor
\* replaces the session.
C29_BackoffBeforeRestart ==
    call.op = "retry" =>
        /\ BackoffFirst(call.seq.events)
        /\ BackoffFirst(call.pool.events)
        /\ \A i \in 1..Len(call.seq.events) :
              call.seq.events[i].e \notin {"destroy", "create"}

\* a pooled worker has given up after three timeouts: sleep 2, retry on the
\* same session, sleep 4, restart, retry, record
C29_Witness ==
    /\ call.op = "retry"
    /\ call.pool.events =
          <<Event("fail", 0), Event("sleep", 2),
            Event("fail", 0), Event("sleep", 4), Event("destroy", 0),
            Event("sleep", 2), Event("create", 0),
            Event("fail", 0), Event("record", 0)>>

\* C30: a pooled worker whose replacement create failed makes one more
\* create and no other, after a longer pause; when that succeeds it goes on with the attempts on
\* the same URL, retry_count unchanged, on the new session; when that fails
\* too it appends one "Browser restart failed" record for the URL, the
\* URL's only record, with attempts = the failed attempts made so far (1 or
\* 2), leaves the URL without another attempt, and holds no session.
C30_OneMoreCreateThenAbandon ==
    [][\A w \in Workers :
          /\ (wpc[w] = "recreate" /\ wpc'[w] # "recreate") =>
                \/ /\ wpc'[w] = "attempt" /\ driver'[w] = "Live"
                   /\ wfailed'[w] = wfailed[w]
                   /\ <<widx[w], retry_count[w]>>' = <<widx[w], retry_count[w]>>
                \/ /\ wpc'[w] = "recover" /\ driver'[w] = None
                   /\ wfailed'[w] = wfailed[w]
                   /\ <<widx[w], retry_count[w]>>' = <<widx[w], retry_count[w]>>
          /\ wpc[w] = "recover" => recovery_pause > restart_pause
          /\ (wpc[w] = "recover" /\ wpc'[w] # "recover") =>
                \/ /\ wpc'[w] = "attempt" /\ driver'[w] = "Live"
                   /\ wfailed'[w] = wfailed[w]
                   /\ <<widx[w], retry_count[w]>>' = <<widx[w], retry_count[w]>>
                \/ /\ wfailed'[w] = Append(wfailed[w],
                         [url |-> CurUrl(w), error |-> RestartFailedMsg,
                          worker_id |-> w, attempts |-> retry_count[w]])
                   /\ retry_count[w] \in {1, 2}
                   /\ retry_count[w] = attempts_log[w]
                   /\ ~InList(wfailed[w], CurUrl(w))
                   /\ ~InList(results'[w], CurUrl(w))
                   /\ driver'[w] = None
                   /\ \/ wpc'[w] = "finally" /\ widx[w] = Len(url_batches[w])
                      \/ /\ wpc'[w] = "attempt" /\ widx'[w] = widx[w] + 1
                         /\ retry_count'[w] = 0
      ]_vars

\* a worker has given up its first URL after one failed attempt and two
\* failed creates, and stands before its second URL without a session
C30_Witness ==
    \E w \in Workers :
        /\ wpc[w] = "attempt" /\ widx[w] = 2 /\ driver[w] = None
        /\ wfailed[w] = <<[url |-> url_batches[w][1], error |-> RestartFailedMsg,
                           worker_id |-> w, attempts |-> 1]>>

\* C31: the error of every failure record appended, on the
\* retries-exhausted paths and on the restart-failed path, has at most 500
\* characters.
C31_ErrorTruncated ==
    (call.op = "failure_record" /\ call.done) => Len(call.error) <= 500

\* the description holds the text in any mix of cases
ContainsAnyCase(description, literal) ==
    \E i \in 1..Len(description) : SubLiteral(literal, description[i].text)

\* the signatures of the pooled worker's list that the description holds,
\* each one searched the way its line of the list searches it: in the
\* description itself, or without regard to case
PoolSignaturesHeld(description) ==
    {t \in {"Stacktrace", "Message: \n", "HTTPConnectionPool",
            "Max retries exceeded", "Driver connection lost"} :
        Contains(description, t)}
    \cup {t \in {"chrome not reachable", "session not created",
                 "target window already closed", "disconnected",
                 "Message: unknown error", "chromedriver",
                 "can not connect to the service", "unexpectedly exited",
                 "status code was: -9"} :
            ContainsAnyCase(description, t)}
    \cup {t \in {"localhost and session"} :
            Contains(description, "localhost") /\ Contains(description, "session")}

\* C32: the classification of the pooled worker is fatal exactly for the
\* descriptions that hold at least one signature of its list, transient for
\* every other one, the empty one included.
C32_FatalIffSignature ==
    (call.op = "critical_error" /\ call.pool_done) =>
        (call.pool <=> PoolSignaturesHeld(call.msg) # {})

\* C33: an attempt of a pooled worker whose session does not answer the
\* probe reaches no protocol outcome: it collects nothing and fails with the
\* message of the probe, which is critical; with retries left the worker
\* goes to the restart, otherwise the target is recorded with that message;
\* and a worker that starts the next attempt after such a failure has
\* created one session since and ended the one it held.
C33_ProbeBeforeEveryAttempt ==
    /\ [][\A w \in Workers :
            (AttemptStep(w) /\ driver[w] # "Live") =>
                /\ results'[w] = results[w]
                /\ critical_error(DriverLostMsg)
                /\ IF retry_count[w] + 1 < max_retries
                   THEN /\ retry_count'[w] = retry_count[w] + 1
                        /\ error_msg'[w] = DriverLostMsg
                        /\ wpc'[w] = "quit"
                        /\ wfailed'[w] = wfailed[w]
                   ELSE wfailed'[w] = Append(wfailed[w],
                            [url |-> CurUrl(w), error |-> DriverLostMsg,
                             worker_id |-> w, attempts |-> max_retries])]_vars
    /\ [](\A w \in Workers :
            (wpc[w] = "attempt" /\ error_msg[w] = DriverLostMsg) =>
                /\ restart_log[w].created = 1
                /\ restart_log[w].destroyed =
                      IF retry_count[w] = 1 /\ PreviousAbandoned(w)
                      THEN 0 ELSE 1)

\* a worker about to retry on the session that replaced the one whose probe
\* failed, and a target recorded after three failed probes
C33_Witness ==
    \E w \in Workers :
        /\ wpc[w] = "attempt" /\ retry_count[w] = 1
        /\ error_msg[w] = DriverLostMsg /\ driver[w] = "Live"
        /\ restart_log[w] = [destroyed |-> 1, created |-> 1]
        /\ \E i \in 1..Len(wfailed[w]) :
              wfailed[w][i].error = DriverLostMsg

\* C34: a group without targets is read without an error, whatever the
\* number of workers; a group whose result list holds no entry gets no
\* output file and the save raises nothing: the next step opens the
\* checkpoint with the group added, then the checkpoint is written and the
\* loop goes on with the next group.
C34_EmptyGroupSkipsWriting ==
    /\ [][(ReadCsv /\ UrlsOf(CurGroup) = <<>>) =>
              (group_error' = group_error /\ mpc' = "save")]_vars
    /\ [][(mpc = "save" /\ NumEntries(all_results) = 0) =>
              (output' = output /\ mpc' = "ckpt")]_vars
    /\ [][(mpc = "ckpt" /\ NumEntries(all_results) = 0) =>
              /\ mpc' = "dump"
              /\ CurGroup \in Range(checkpoint_data'.processed_files)]_vars
    /\ [][(mpc = "dump" /\ NumEntries(all_results) = 0) =>
              /\ ckptFile' = CompleteFile(checkpoint_data)
              /\ mpc' = "loop" /\ idx' = idx + 1]_vars

\* a step of worker w
StepOf(w) == wpc'[w] # wpc[w] \/ AttemptStep(w)

\* C35: every pooled worker ends (it returns, or raises out of its first
\* create), whatever the outcomes of its calls; an attempt is made only
\* after fewer than 3 failed ones on the target; a session is replaced only
\* after the 1st or the 2nd failed attempt on the target, once per failure;
\* and a replacement calls create once and, when that fails, once more.
C35_WorkerTerminates ==
    /\ <>[](\A w \in Workers : wpc[w] \in {"idle", "returned", "raised"})
    /\ [](\A w \in Workers :
            /\ wpc[w] = "attempt" =>
                  /\ retry_count[w] < max_retries
                  /\ attempts_log[w] = retry_count[w]
            /\ wpc[w] \in {"quit", "recreate", "recover"} =>
                  /\ retry_count[w] \in 1..2
                  /\ attempts_log[w] = retry_count[w]
                  /\ restart_log[w].created = 0)
    /\ [][\A w \in Workers :
            /\ (StepOf(w) /\ wpc'[w] = "quit") =>
                  /\ wpc[w] = "attempt"
                  /\ retry_count'[w] = retry_count[w] + 1
            /\ (StepOf(w) /\ wpc[w] = "quit") => wpc'[w] = "recreate"
            /\ (StepOf(w) /\ wpc[w] = "recreate") =>
                  wpc'[w] \in {"attempt", "recover"}
            /\ (StepOf(w) /\ wpc[w] = "recover") =>
                  /\ wpc'[w] \in {"attempt", "finally"}
                  /\ wpc'[w] = "attempt" =>
                        (retry_count'[w] = 0 \/ restart_log'[w].created = 1)]_vars

\* a worker has returned after a target that took three attempts and two
\* replacements, the second one with two calls of create
C35_Witness ==
    \E w \in Workers :
        /\ wpc[w] = "returned"
        /\ \E i \in 1..Len(wfailed[w]) : wfailed[w][i].attempts = max_retries
        /\ \E i \in 1..Len(wfailed[w]) : wfailed[w][i].error = RestartFailedMsg

\* C36: when worker 0 of a group runs its start-up sweep, no other worker of
\* the group has come back from its create_driver with a session: each one
\* is idle, not yet started, still creating its session, or has failed to.
C36_SweepBeforeAnyCreate ==
    [][(wpc[0] = "start" /\ wpc'[0] = "create") =>
          \A v \in Workers \ {0} :
              wpc[v] \in {"idle", "start", "create", "raised"}]_vars

\* the groups that the checkpoint on disk does not list
NotCheckpointed(file) ==
    SelectSeq(PassFiles, LAMBDA g : g \notin Range(file.data.processed_files))

Passes(rows) == {rows[i].pass : i \in 1..Len(rows)}

\* C37: a run started with --resume after an interruption goes through the
\* groups that the checkpoint on disk does not list, each one from its start
\* (an output file it writes holds the rows of this pass alone); no output
\* file holds rows of two passes; and the failure file and the checkpoint
\* hold no record of a pass over a group that was not checkpointed.
C37_ResumeReprocessesUncheckpointed ==
    /\ [][(call.op = "main" /\ call.pc = "start" /\ call.resume
              /\ call'.pass = call.pass) =>
              /\ call'.pc = "loop"
              /\ call'.csv_files = NotCheckpointed(call.ckptFile)
              /\ call'.idx = 1]_vars
    /\ [](call.op = "main" =>
            /\ \A g \in Groups :
                  /\ Cardinality(Passes(call.output[g].rows)) <= 1
                  /\ call.pc = "ckpt" /\ call.csv_files[call.idx] = g
                        /\ call.results # <<>>
                        => call.output[g].rows = call.results
            /\ \A i \in 1..Len(call.failedFile.rows) :
                  call.checkpointed[call.failedFile.rows[i].url]
                      = call.failedFile.rows[i].pass
            /\ call.ckptFile.state = "complete" =>
                  \A i \in 1..Len(call.ckptFile.data.failed_urls) :
                      call.checkpointed[call.ckptFile.data.failed_urls[i].url]
                          = call.ckptFile.data.failed_urls[i].pass)

SeqRunning == call.op = "scrape_match_and_odds"

\* C38: in the sequential loop every attempt calls create_driver once and,
\* when it got a session, has called quit() on it when its outcome is
\* decided; at most one browser runs at any time; and an attempt whose
\* create_driver or quit() raised is a failed one: it adds nothing to the
\* results and is retried, or recorded when it is the 3rd.
C38_OneSessionPerAttempt ==
    /\ [](SeqRunning =>
            /\ call.sessions <= 1
            /\ call.pc = "except" =>
                  /\ call.creates = call.seq.attempts + 1
                  /\ call.driver = None
                  /\ call.quits = call.created
                  /\ call.res.err \in {NotCreatedMsg, QuitFailedMsg}
                        => ~call.res.ok)
    /\ [][(SeqRunning /\ call.pc = "except"
              /\ call.res.err \in {NotCreatedMsg, QuitFailedMsg}) =>
              /\ call'.seq.results = call.seq.results
              /\ call'.seq.retry_count = call.seq.retry_count + 1
              /\ IF call.seq.retry_count + 1 < max_retries
                 THEN call'.pc = "create"
                      /\ call'.seq.failed_urls = call.seq.failed_urls
                 ELSE call'.pc = "done"
                      /\ Len(call'.seq.failed_urls) = 1]_vars

\* C39: a run started without --resume leaves its start with the empty
\* checkpoint, every CSV file found and no failure carried over, whatever
\* checkpoint file is there; the first checkpoint it saves lists the first
\* group alone and the failure records that group returned; and at its end
\* the checkpoint lists every group found.
C39_FreshRunIgnoresCheckpoint ==
    /\ [](~args.resume =>
            /\ mpc # "crashed"
            /\ mpc # "start" =>
                  /\ csv_files = find_csv_files
                  /\ processed_set = {}
            /\ mpc = "loop" /\ idx = 1 =>
                  /\ checkpoint_data = EmptyCheckpoint
                  /\ all_failed_urls = <<>>
            /\ mpc = "done" =>
                  ckptFile = CompleteFile(
                      [processed_files |-> find_csv_files,
                       failed_urls |-> all_failed_urls]))
    /\ [][(~args.resume /\ mpc = "dump" /\ idx = 1) =>
              ckptFile' = CompleteFile(
                  [processed_files |-> <<csv_files[1]>>,
                   failed_urls |-> failed_urls])]_vars

\* a run without --resume over a directory that held a checkpoint with a
\* completed group and a failure record is in its first save: the old file
\* is gone and the document being written has the first group and the one
\* failure record that group returned
C39_Witness ==
    /\ ~args.resume
    /\ last_ckpt \in PriorCheckpoints
    /\ mpc = "dump" /\ idx = 1
    /\ ckptFile = TruncatedFile
    /\ Len(failed_urls) = 1
    /\ checkpoint_data = [processed_files |-> <<csv_files[1]>>,
                          failed_urls |-> failed_urls]

====
